---- MODULE Spec2Model ----
(***************************************************************************)
(* haresheet: the request Builder (builder.go) and the                     *)
(* BatchUpdateExecutor (batch_update_executor.go).                         *)
(*                                                                         *)
(* One executor and one Builder are modelled.  Either the Builder was made *)
(* by Client.Builder() and owns the executor (b_executor = TRUE; the       *)
(* executor field is unexported, so the executor is driven only through    *)
(* Builder.Flush / WithLimit), or the Builder was made by NewBuilder()     *)
(* (b_executor = FALSE) and the executor is a standalone one driven        *)
(* directly through Queue and Flush.                                       *)
(*                                                                         *)
(* The SheetBuilder, RowBuilder and ColumnBuilder methods (views of the    *)
(* Builder) are modelled by their effect on the Builder they forward to;   *)
(* views holds the views the caller keeps.  Spec, SpecExec, SpecTrace and *)
(* SpecRetry (Flush called again and again, under fairness) drive the      *)
(* executor; SpecBuilder, SpecOrder, SpecProps, SpecErrors, SpecFinal,     *)
(* SpecReset, SpecViews, SpecScoped, SpecSheets and SpecCopy drive the     *)
(* Builder of Client.Builder(); SpecFlush and SpecInvalid drive both       *)
(* Builders.                                                               *)
(***************************************************************************)
EXTENDS Integers, Sequences, FiniteSets, TLC

VARIABLES
    requests,       \* BatchUpdateExecutor.requests  (staging buffer)
    units,          \* BatchUpdateExecutor.units
    limit,          \* BatchUpdateExecutor.limit
    err,            \* BatchUpdateExecutor.err       (sticky error)
    Trace,          \* BatchUpdateExecutor.Trace
    b_executor,     \* Builder.executor # nil
    b_requests,     \* Builder.requests
    b_errs,         \* Builder.errs
    b_props,        \* Builder.props
    b_propFields,   \* Builder.propFields
    nextId,         \* identity of the next *sheets.Request allocated
    admitted,       \* history: every request appended to the buffer, in order
    capped,         \* history: the limit never changed and no appended submission exceeded it
    delivered,      \* history: payloads of the successful remote calls, in order
    setters,        \* history: field |-> value of its last setter call since the last Reset
    prepended,      \* history: identities of the requests passed to PrependRequest
    views,          \* the SheetBuilder, RowBuilder and ColumnBuilder values the caller holds
    last            \* history: the last call and what it did

vars == <<requests, units, limit, err, Trace, b_executor, b_requests, b_errs,
          b_props, b_propFields, nextId, admitted, capped, delivered, setters,
          prepended, views, last>>

execVars == <<requests, units, limit, err, Trace>>
builderVars == <<b_requests, b_errs, b_props, b_propFields>>
callVars == <<setters, prepended, views>>

----------------------------------------------------------------------------
(* Bounds of the model *)

MaxQueued == 4          \* requests a caller allocates for Queue in one behaviour
MaxNew == 3             \* requests in one Queue call of a caller
MaxStaged == 3          \* requests allocated for the Builder in one behaviour
MaxBuilder == 3         \* requests staged in the Builder at a time
MaxAdmitted == 4        \* requests the Builder hands to its executor in one behaviour
MaxUnits == 3           \* units retained by the executor
MaxFields == 2          \* entries of Builder.propFields
MaxErrs == 2            \* entries of Builder.errs
MaxViews == 3           \* views the caller holds

(* Inputs *)

LimitArgs == {0, 2, 3}              \* NewBatchUpdateExecutor(limit)
WithLimitArgs == {0, 2}             \* Builder.WithLimit(limit)
Labels == {""}                      \* Queue(label)
TransportMsgs == {"unavailable"}    \* errors of Spreadsheets.BatchUpdate
Titles == {"Report", "Draft"}       \* Builder.Title(title)
Locales == {"ja_JP"}                \* Builder.Locale(locale)
TimeZones == {"Asia/Tokyo"}         \* Builder.TimeZone(tz)
SheetIDs == {-1, 0}                 \* Builder.Sheet(sheetID), srcSheetID
NameLists == {<<>>, <<"Q1", "Q2">>} \* Builder.CopySheet(newNames...)
ToIndexes == {0}                    \* Builder.CopySheet(toIndex)
SheetIndexes == {-1, 0}             \* Builder.AddSheet(index): -1 leaves the position out
Counts == {-1, 1}                   \* ExpandRows / ExpandColumns / InsertColumns(count)
Indexes == {-1, 0}                  \* SetCellValue(row), with col 0 and a non-nil value
ViewStarts == {-1, 1}               \* SheetBuilder.Row(startRow) / Column(startCol)
ScopeStarts == {-1, 0, 1}           \* SheetBuilder.Row(startRow) / Column(startCol), one view held
ScopeCounts == {0, 1}               \* SheetBuilder.Row(count) / Column(count), one view held
Pixels == {-1, 20}                  \* RowBuilder.SetHeight(pixels) / ColumnBuilder.SetWidth(pixels)
ViewCounts == {1}                   \* SheetBuilder.Row(count) / Column(count) / ExpandRows(count)

(* Program constants *)

DefaultLimit == 100
ClientBuilderLimit == 100

----------------------------------------------------------------------------
(* Values *)

\* An error is the chain of its layers, outermost first; nil is the empty chain.
NilError == <<>>

ErrorLayer(kind, msg, us) == [kind |-> kind, msg |-> msg, Units |-> us]

TransportError(m) == <<ErrorLayer("transport", <<m>>, <<>>)>>

\* &BatchUpdateError{Err: e, Units: us}
BatchUpdateError(e, us) == <<ErrorLayer("BatchUpdateError", <<>>, us)>> \o e

\* (*BatchUpdateError).Unwrap / errors.Unwrap
Unwrap(e) == IF e = NilError THEN NilError ELSE Tail(e)

\* fmt.Errorf("...: %w", e)
Errorf(text, e) == <<ErrorLayer("fmt", <<text>>, <<>>)>> \o e

\* fmt.Errorf(text) / errors.New(text)
NewError(text) == <<ErrorLayer("fmt", <<text>>, <<>>)>>

\* errors.Join(errs...)
Join(errs) == <<ErrorLayer("join", [i \in 1..Len(errs) |-> errs[i][1].msg[1]], <<>>)>>

Outcomes == {NilError} \cup {TransportError(m) : m \in TransportMsgs}

\* *sheets.SpreadsheetProperties
NilProps == [nil |-> TRUE, Title |-> "", Locale |-> "", TimeZone |-> ""]
EmptyProps == [nil |-> FALSE, Title |-> "", Locale |-> "", TimeZone |-> ""]

\* *sheets.GridRange; NilRange for a request that has none
NilRange == [nil |-> TRUE, SheetId |-> 0, StartRowIndex |-> 0, EndRowIndex |-> 0,
             StartColumnIndex |-> 0, EndColumnIndex |-> 0]

\* *sheets.Request: id is the identity of the allocation; range is
\* InsertRange.Range or CopyPaste.Source
Request(kind, id) ==
    [kind |-> kind, id |-> id, props |-> NilProps, fields |-> <<>>, range |-> NilRange]

UpdateSpreadsheetProperties(props, fields) ==
    [kind |-> "UpdateSpreadsheetProperties", id |-> 0, props |-> props, fields |-> fields,
     range |-> NilRange]

\* n requests allocated from identity `from` on
NewRequests(from, n) == [i \in 1..n |-> Request("Request", from + i - 1)]

\* fmt.Sprintf("Unit-%d [%d - %d]", ord, s, e) and caller-given labels
SprintfUnit(ord, s, e) == [format |-> "Unit-%d [%d - %d]", args |-> <<ord, s, e>>]
Literal(text) == [format |-> text, args |-> <<>>]

RequestUnitInfo(label, s, e, n) ==
    [Label |-> label, StartIndex |-> s, EndIndex |-> e, Count |-> n]

\* *ClientTrace
NilTrace == [nil |-> TRUE, OnFlushStart |-> FALSE, OnFlushDone |-> FALSE]

FullTrace == [nil |-> FALSE, OnFlushStart |-> TRUE, OnFlushDone |-> TRUE]

\* &ClientTrace{OnFlushStart: f} and &ClientTrace{OnFlushDone: g}
StartTrace == [nil |-> FALSE, OnFlushStart |-> TRUE, OnFlushDone |-> FALSE]

DoneTrace == [nil |-> FALSE, OnFlushStart |-> FALSE, OnFlushDone |-> TRUE]

PartialTraces == {StartTrace, DoneTrace}    \* e.Trace = trace with one callback unset

TraceArgs == {NilTrace, FullTrace}  \* Builder.WithTrace(trace), e.Trace = trace

FlushStatus(reqs, us) == [RequestCount |-> Len(reqs), Units |-> us]

----------------------------------------------------------------------------
(* BatchUpdateExecutor *)

\* NewBatchUpdateExecutor(service, spreadsheetID, l)
NewBatchUpdateExecutor(l) ==
    [requests |-> <<>>, units |-> <<>>,
     limit |-> IF l <= 0 THEN DefaultLimit ELSE l,
     err |-> NilError, Trace |-> NilTrace]

\* Variant of FlushFailed: the buffer is dropped although the call failed.
FlushFailedClears(e, callErr) ==
    [e |-> [e EXCEPT !.requests = <<>>, !.units = <<>>],
     ret |-> BatchUpdateError(callErr, e.units)]

\* Variant of FlushFailed: the failure is also stored as the sticky error.
FlushFailedSticks(e, callErr) ==
    [e |-> [e EXCEPT !.err = BatchUpdateError(callErr, e.units)],
     ret |-> BatchUpdateError(callErr, e.units)]

\* e.Flush(ctx), lines 150-155: the remote call failed with callErr
FlushFailed(e, callErr) ==
    [e |-> e, ret |-> BatchUpdateError(callErr, e.units)]

\* Variant of FlushDone: only the requests are released, the units are kept.
FlushDoneKeepsUnits(e) ==
    [e |-> [e EXCEPT !.requests = <<>>], ret |-> NilError]

\* e.Flush(ctx), lines 157-161: the remote call succeeded
FlushDone(e) ==
    [e |-> [e EXCEPT !.requests = <<>>, !.units = <<>>], ret |-> NilError]

\* Variant of FlushEmpty: the units are released although nothing was sent.
FlushEmptyClearsUnits(e) ==
    [e |-> [e EXCEPT !.units = <<>>], ret |-> NilError, calls |-> <<>>, events |-> <<>>]

\* e.Flush(ctx), lines 117-119: the buffer is empty
FlushEmpty(e) == [e |-> e, ret |-> NilError, calls |-> <<>>, events |-> <<>>]

\* e.Flush(ctx), lines 133-135: the hook before the remote call
OnFlushStart(e, status) ==
    IF ~e.Trace.nil /\ e.Trace.OnFlushStart
    THEN <<[hook |-> "OnFlushStart", status |-> status, err |-> NilError]>>
    ELSE <<>>

\* Variant of OnFlushDone: the hook is skipped when the remote call failed.
OnFlushDoneOnSuccess(e, status, outcome) ==
    IF ~e.Trace.nil /\ e.Trace.OnFlushDone /\ outcome = NilError
    THEN <<[hook |-> "OnFlushDone", status |-> status, err |-> outcome]>>
    ELSE <<>>

\* e.Flush(ctx), lines 145-148: the hook after the remote call
OnFlushDone(e, status, outcome) ==
    IF ~e.Trace.nil /\ e.Trace.OnFlushDone
    THEN <<[hook |-> "OnFlushDone", status |-> status, err |-> outcome]>>
    ELSE <<>>

\* Variant of Flush: an executor whose sticky error is set sends nothing.
FlushUnlessSticky(e, outcome) ==
    IF Len(e.requests) = 0 \/ e.err # NilError
    THEN FlushEmpty(e)
    ELSE LET status == FlushStatus(e.requests, e.units)
             started == OnFlushStart(e, status)
             call == <<[hook |-> "BatchUpdate", status |-> status, err |-> outcome]>>
             done == OnFlushDone(e, status, outcome)
             r == IF outcome # NilError THEN FlushFailed(e, outcome) ELSE FlushDone(e)
         IN  [e |-> r.e, ret |-> r.ret,
              calls |-> <<[payload |-> e.requests, units |-> e.units, err |-> outcome]>>,
              events |-> started \o call \o done]

\* e.Flush(ctx); outcome is what Spreadsheets.BatchUpdate(...).Do() returns.
\* calls lists the remote calls made, events the hooks and calls in order.
Flush(e, outcome) ==
    IF Len(e.requests) = 0
    THEN FlushEmpty(e)
    ELSE LET status == FlushStatus(e.requests, e.units)
             started == OnFlushStart(e, status)
             call == <<[hook |-> "BatchUpdate", status |-> status, err |-> outcome]>>
             done == OnFlushDone(e, status, outcome)
             r == IF outcome # NilError THEN FlushFailed(e, outcome) ELSE FlushDone(e)
         IN  [e |-> r.e, ret |-> r.ret,
              calls |-> <<[payload |-> e.requests, units |-> e.units, err |-> outcome]>>,
              events |-> started \o call \o done]

\* Variant of Refused: the sticky error is not consulted.
RefusedNever(e) == FALSE

\* e.Queue, line 78: the sticky error refuses the call
Refused(e) == e.err # NilError

\* Variant of NeedFlush: the comparison with the limit is off by one.
NeedFlushOffByOne(e, reqs) ==
    Len(e.requests) > 0 /\ Len(e.requests) + Len(reqs) > e.limit + 1

\* Variant of NeedFlush: a buffer filled exactly to the limit is flushed too.
NeedFlushAtLimit(e, reqs) ==
    Len(e.requests) > 0 /\ Len(e.requests) + Len(reqs) >= e.limit

\* Variant of NeedFlush: the staged requests are not counted.
NeedFlushIgnoresBuffer(e, reqs) ==
    Len(e.requests) > 0 /\ Len(reqs) > e.limit

\* e.Queue, line 85: the buffer is flushed before the requests are appended
NeedFlush(e, reqs) ==
    Len(e.requests) > 0 /\ Len(e.requests) + Len(reqs) > e.limit

\* Variant of Stick: the failure is dropped.
StickNot(e, flushErr) == e

\* e.Queue, lines 87-91: the flush before appending failed with flushErr
Stick(e, flushErr) == [e EXCEPT !.err = flushErr]

\* Variant of Admit: of a submission larger than the limit only the first
\* limit requests are appended.
AdmitSplits(e, currentCount, reqs, label) ==
    LET kept == IF Len(reqs) > e.limit THEN SubSeq(reqs, 1, e.limit) ELSE reqs
        startIndex == currentCount
        endIndex == currentCount + Len(kept) - 1
        lbl == IF label = ""
               THEN SprintfUnit(Len(e.units) + 1, startIndex, endIndex)
               ELSE Literal(label)
    IN  [e EXCEPT !.units = Append(e.units,
                               RequestUnitInfo(lbl, startIndex, endIndex, Len(kept))),
                  !.requests = e.requests \o kept]

\* Variant of Admit: the ordinal of the synthesized label counts from zero.
AdmitZeroBased(e, currentCount, reqs, label) ==
    LET startIndex == currentCount
        endIndex == currentCount + Len(reqs) - 1
        lbl == IF label = ""
               THEN SprintfUnit(Len(e.units), startIndex, endIndex)
               ELSE Literal(label)
    IN  [e EXCEPT !.units = Append(e.units,
                               RequestUnitInfo(lbl, startIndex, endIndex, Len(reqs))),
                  !.requests = e.requests \o reqs]

\* Variant of Admit: the count of the unit is the length of the buffer after
\* the append.
AdmitCountsBuffer(e, currentCount, reqs, label) ==
    LET startIndex == currentCount
        endIndex == currentCount + Len(reqs) - 1
        lbl == IF label = ""
               THEN SprintfUnit(Len(e.units) + 1, startIndex, endIndex)
               ELSE Literal(label)
    IN  [e EXCEPT !.units = Append(e.units,
                               RequestUnitInfo(lbl, startIndex, endIndex, endIndex + 1)),
                  !.requests = e.requests \o reqs]

\* Variant of Admit: the end index is the index after the last request.
AdmitEndExclusive(e, currentCount, reqs, label) ==
    LET startIndex == currentCount
        endIndex == currentCount + Len(reqs)
        lbl == IF label = ""
               THEN SprintfUnit(Len(e.units) + 1, startIndex, endIndex)
               ELSE Literal(label)
    IN  [e EXCEPT !.units = Append(e.units,
                               RequestUnitInfo(lbl, startIndex, endIndex, Len(reqs))),
                  !.requests = e.requests \o reqs]

\* Variant of Admit: the new requests are put in front of the staged ones.
AdmitInFront(e, currentCount, reqs, label) ==
    LET startIndex == currentCount
        endIndex == currentCount + Len(reqs) - 1
        lbl == IF label = ""
               THEN SprintfUnit(Len(e.units) + 1, startIndex, endIndex)
               ELSE Literal(label)
    IN  [e EXCEPT !.units = Append(e.units,
                               RequestUnitInfo(lbl, startIndex, endIndex, Len(reqs))),
                  !.requests = reqs \o e.requests]

\* e.Queue, lines 96-110: the unit and the requests are appended
Admit(e, currentCount, reqs, label) ==
    LET startIndex == currentCount
        endIndex == currentCount + Len(reqs) - 1
        lbl == IF label = ""
               THEN SprintfUnit(Len(e.units) + 1, startIndex, endIndex)
               ELSE Literal(label)
    IN  [e EXCEPT !.units = Append(e.units,
                               RequestUnitInfo(lbl, startIndex, endIndex, Len(reqs))),
                  !.requests = e.requests \o reqs]

\* e.Queue(ctx, reqs, label); outcome is the result of the remote call it may make
Queue(e, reqs, label, outcome) ==
    IF Refused(e)
    THEN [e |-> e, calls |-> <<>>, events |-> <<>>, appended |-> FALSE]
    ELSE IF NeedFlush(e, reqs)
         THEN LET f == Flush(e, outcome)
              IN  IF f.ret # NilError
                  THEN [e |-> Stick(f.e, f.ret),
                        calls |-> f.calls, events |-> f.events, appended |-> FALSE]
                  ELSE [e |-> Admit(f.e, 0, reqs, label),
                        calls |-> f.calls, events |-> f.events, appended |-> TRUE]
         ELSE [e |-> Admit(e, Len(e.requests), reqs, label),
               calls |-> <<>>, events |-> <<>>, appended |-> TRUE]

----------------------------------------------------------------------------
(* Builder *)

\* Variant of Requests: only the first recorded error is returned.
RequestsFirstError(b) ==
    IF Len(b.errs) > 0
    THEN [requests |-> <<>>, err |-> Join(<<b.errs[1]>>)]
    ELSE IF ~b.props.nil /\ Len(b.propFields) > 0
         THEN [requests |-> <<UpdateSpreadsheetProperties(b.props, b.propFields)>> \o b.requests,
               err |-> NilError]
         ELSE [requests |-> b.requests, err |-> NilError]

\* Variant of Requests: the property update is put behind the staged requests.
RequestsUpdateLast(b) ==
    IF Len(b.errs) > 0
    THEN [requests |-> <<>>, err |-> Join(b.errs)]
    ELSE IF ~b.props.nil /\ Len(b.propFields) > 0
         THEN [requests |-> Append(b.requests, UpdateSpreadsheetProperties(b.props, b.propFields)),
               err |-> NilError]
         ELSE [requests |-> b.requests, err |-> NilError]

\* b.Requests(): <<requests, error>>
Requests(b) ==
    IF Len(b.errs) > 0
    THEN [requests |-> <<>>, err |-> Join(b.errs)]
    ELSE IF ~b.props.nil /\ Len(b.propFields) > 0
         THEN [requests |-> <<UpdateSpreadsheetProperties(b.props, b.propFields)>> \o b.requests,
               err |-> NilError]
         ELSE [requests |-> b.requests, err |-> NilError]

\* Variant of AppendRequest: the request is put in front of the staged ones.
AppendRequestInFront(b, request) == [b EXCEPT !.requests = <<request>> \o b.requests]

\* b.AppendRequest(request), request # nil
AppendRequest(b, request) == [b EXCEPT !.requests = Append(b.requests, request)]

\* Variant of PrependRequest: the request is put behind the staged ones.
PrependRequestAtTail(b, request) == [b EXCEPT !.requests = Append(b.requests, request)]

\* b.PrependRequest(request), request # nil
PrependRequest(b, request) == [b EXCEPT !.requests = <<request>> \o b.requests]

\* b.appendError(err)
appendError(b, e) == IF e # NilError THEN [b EXCEPT !.errs = Append(b.errs, e)] ELSE b

\* b.ensureProps()
ensureProps(b) == IF b.props.nil THEN [b EXCEPT !.props = EmptyProps] ELSE b

\* Variant of Title: a title already set is not replaced.
TitleKeepsFirst(b, title) ==
    LET b1 == ensureProps(b)
    IN  [b1 EXCEPT !.props.Title = IF b1.props.Title = "" THEN title ELSE b1.props.Title,
                   !.propFields = Append(b1.propFields, "title")]

\* b.Title(title)
Title(b, title) ==
    LET b1 == ensureProps(b)
    IN  [b1 EXCEPT !.props.Title = title, !.propFields = Append(b1.propFields, "title")]

\* b.Sheet(sheetID): the effect on the Builder
Sheet(b, sheetID) ==
    IF sheetID < 0 THEN appendError(b, NewError("Sheet: invalid sheet ID")) ELSE b

\* b.Locale(locale)
Locale(b, locale) ==
    LET b1 == ensureProps(b)
    IN  [b1 EXCEPT !.props.Locale = locale, !.propFields = Append(b1.propFields, "locale")]

\* b.TimeZone(tz)
TimeZone(b, tz) ==
    LET b1 == ensureProps(b)
    IN  [b1 EXCEPT !.props.TimeZone = tz, !.propFields = Append(b1.propFields, "timeZone")]

\* the loop of b.CopySheet over newNames: one DuplicateSheet request per name
RECURSIVE CopySheetLoop(_, _, _)
CopySheetLoop(b, newNames, id) ==
    IF newNames = <<>> THEN b
    ELSE CopySheetLoop(AppendRequest(b, Request("DuplicateSheet", id)), Tail(newNames), id + 1)

\* b.AddSheet(sheetID, title, index): no argument is tested, and the request
\* is put behind the staged ones (b.requests = append(b.requests, req))
AddSheet(b, sheetID, title, index, id) ==
    [b EXCEPT !.requests = Append(b.requests, Request("AddSheet", id))]

\* b.CopySheet(srcSheetID, toIndex, newNames...); requests are allocated from id on
CopySheet(b, srcSheetID, toIndex, newNames, id) ==
    IF srcSheetID < 0 THEN appendError(b, NewError("CopySheet: invalid src sheet ID: %d"))
    ELSE IF toIndex < -1 THEN appendError(b, NewError("CopySheet: invalid to index: %d"))
    ELSE IF Len(newNames) = 0 THEN appendError(b, NewError("CopySheet: no sheet names specified"))
    ELSE CopySheetLoop(b, newNames, id)

\* Variant of AfterRequests: the recorded errors are dropped once reported.
AfterRequestsClearsErrs(b) == [b EXCEPT !.errs = <<>>]

\* Variant of AfterRequests: the finalized sequence is stored as the staged one.
AfterRequestsStores(b) ==
    IF Len(b.errs) > 0 THEN b ELSE [b EXCEPT !.requests = Requests(b).requests]

\* b.Requests() assigns no field of b: the Builder after the call
AfterRequests(b) == b

\* Variant of Reset: the properties and their field names are kept.
ResetKeepsProps(b) ==
    [requests |-> <<>>, errs |-> <<>>, props |-> b.props, propFields |-> b.propFields]

\* Variant of Reset: the recorded errors are kept.
ResetKeepsErrs(b) ==
    [requests |-> <<>>, errs |-> b.errs, props |-> NilProps, propFields |-> <<>>]

\* b.Reset()
Reset(b) == [requests |-> <<>>, errs |-> <<>>, props |-> NilProps, propFields |-> <<>>]

\* NewBuilder()
NewBuilder == [requests |-> <<>>, errs |-> <<>>, props |-> NilProps, propFields |-> <<>>]

\* Variant of NotFlushed: the Builder is reset although the flush failed.
NotFlushedResets(b) == Reset(b)

\* b.Flush(ctx), lines 299-301: the return before b.Reset() leaves the Builder as it is
NotFlushed(b) == b

\* history: the remote calls cs, marked with the executor method that made them
Tag(via, cs) ==
    [i \in 1..Len(cs) |->
        [via |-> via, payload |-> cs[i].payload, units |-> cs[i].units, err |-> cs[i].err]]

\* Variant of Rejected: the error of the finalization is ignored.
RejectedNever(r) == FALSE

\* b.Flush(ctx), lines 284-287: the finalization r failed
Rejected(r) == r.err # NilError

\* Variant of NothingToFlush: an empty finalization is submitted like any other.
NothingToFlushNever(r) == FALSE

\* b.Flush(ctx), lines 289-291: the finalization r has no request
NothingToFlush(r) == Len(r.requests) = 0

\* Variant of NoClient: the executor is used without the test.
NoClientIgnored(bound) == FALSE

\* b.Flush(ctx), lines 293-295: b.executor == nil
NoClient(bound) == ~bound

\* b.Flush(ctx): o1 and o2 are the outcomes of the remote calls it may make
BuilderFlush(b, bound, e, o1, o2) ==
    LET r == Requests(b)
        none(ret) == [b |-> b, e |-> e, calls |-> <<>>, events |-> <<>>,
                      appended |-> FALSE, final |-> r.requests, ret |-> ret,
                      reset |-> FALSE]
    IN  IF Rejected(r) THEN none(r.err)
        ELSE IF NothingToFlush(r) THEN none(NilError)
        ELSE IF NoClient(bound)
             THEN none(NewError("Flush: cannot flush builder without a client"))
        ELSE LET q == Queue(e, r.requests, "", o1)
                 f == Flush(q.e, o2)
                 cs == Tag("Queue", q.calls) \o Tag("Flush", f.calls)
             IN  IF f.ret # NilError
                 THEN [b |-> NotFlushed(b), e |-> f.e, calls |-> cs,
                       events |-> q.events \o f.events,
                       appended |-> q.appended, final |-> r.requests,
                       ret |-> Errorf("Flush: failed to flush builder", f.ret),
                       reset |-> FALSE]
                 ELSE [b |-> Reset(b), e |-> f.e, calls |-> cs, events |-> q.events \o f.events,
                       appended |-> q.appended, final |-> r.requests,
                       ret |-> NilError, reset |-> TRUE]

----------------------------------------------------------------------------
(* SheetBuilder: a view of the Builder b for one sheet (sb.b = b)            *)

toEnd == -1

\* *Rect
Rect(row, col, height, width) ==
    [nil |-> FALSE, Row |-> row, Col |-> col, Height |-> height, Width |-> width]

NilRect == [nil |-> TRUE, Row |-> 0, Col |-> 0, Height |-> 0, Width |-> 0]

\* sb.isRectInvalid(rect, label, name): the Builder after it, and its result
isRectInvalid(b, rect, label, name) ==
    LET bad(what) == [b |-> appendError(b, NewError(label \o ": invalid " \o name \o what)),
                      invalid |-> TRUE]
    IN  IF rect.nil
        THEN [b |-> appendError(b, NewError(label \o ": " \o name \o " should not be nil")),
              invalid |-> TRUE]
        ELSE IF rect.Row < 0 THEN bad(".Row: %d")
        ELSE IF rect.Col < 0 THEN bad(".Col: %d")
        ELSE IF rect.Height < 0 /\ rect.Height # toEnd THEN bad(".Height: %d")
        ELSE IF rect.Width < 0 /\ rect.Width # toEnd THEN bad(".Width: %d")
        ELSE [b |-> b, invalid |-> FALSE]

\* sb.ExpandRows(count)
ExpandRows(b, count, id) ==
    IF count < 0 THEN appendError(b, NewError("ExpandRows: invalid count: %d"))
    ELSE PrependRequest(b, Request("AppendDimension", id))

\* sb.ExpandColumns(count): the text of its error is that of ExpandRows
ExpandColumns(b, count, id) ==
    IF count < 0 THEN appendError(b, NewError("ExpandRows: invalid count: %d"))
    ELSE PrependRequest(b, Request("AppendDimension", id))

\* sb.InsertColumns(startIndex, count)
InsertColumns(b, startIndex, count, id) ==
    IF startIndex < 0 THEN appendError(b, NewError("InsertColumns: invalid startIndex: %d"))
    ELSE IF count <= 0 THEN appendError(b, NewError("InsertColumns: invalid count: %d"))
    ELSE PrependRequest(b, Request("InsertDimension", id))

\* sb.SetCellValue(row, col, value)
SetCellValue(b, row, col, valueIsNil, id) ==
    IF row < 0 THEN appendError(b, NewError("SetCellValue: invalid row: %d"))
    ELSE IF col < 0 THEN appendError(b, NewError("SetCellValue: invalid col: %d"))
    ELSE IF valueIsNil THEN appendError(b, NewError("SetCellValue: value should not be nil"))
    ELSE AppendRequest(b, Request("UpdateCells", id))

\* &sheets.GridRange{SheetId: sheetId, StartRowIndex: rect.Row, ...}
GridRange(sheetId, rect) ==
    [nil |-> FALSE, SheetId |-> sheetId,
     StartRowIndex |-> rect.Row, EndRowIndex |-> rect.Row + rect.Height,
     StartColumnIndex |-> rect.Col, EndColumnIndex |-> rect.Col + rect.Width]

\* sb.InsertRange(rect, shiftDimension) on the view of sheet sheetID
InsertRange(b, sheetID, rect, id) ==
    LET v == isRectInvalid(b, rect, "InsertRange", "rect")
    IN  IF v.invalid THEN v.b
        ELSE AppendRequest(b, [Request("InsertRange", id) EXCEPT
                                   !.range = GridRange(sheetID, rect)])

\* sb.CopyRange(srcSheetID, src, dstR, dstC, pasteType)
CopyRange(b, srcSheetID, src, dstR, dstC, id) ==
    IF srcSheetID < 0 THEN appendError(b, NewError("CopyRange: invalid src sheet id: %d"))
    ELSE LET v == isRectInvalid(b, src, "CopyRange", "src")
         IN  IF v.invalid THEN v.b
             ELSE IF dstR < 0 THEN appendError(b, NewError("CopyRange: invalid dst row: %d"))
             ELSE IF dstC < 0 THEN appendError(b, NewError("CopyRange: invalid dst column: %d"))
             ELSE AppendRequest(b, [Request("CopyPaste", id) EXCEPT
                                        !.range = GridRange(srcSheetID, src)])

\* sb.InsertAndCopyRange(srcSheetID, src, dstR, dstC, pasteType) on the view of
\* sheet sheetID: InsertRange of the destination, then CopyRange of the source,
\* whose Row is moved down by src.Height when the insertion shifts it.
InsertAndCopyRange(b, sheetID, srcSheetID, src, dstR, dstC, id) ==
    IF srcSheetID < 0
    THEN appendError(b, NewError("InsertAndCopyRange: invalid src sheet id: %d"))
    ELSE LET v == isRectInvalid(b, src, "InsertAndCopyRange", "src")
         IN  IF v.invalid THEN v.b
             ELSE IF dstR < 0
                  THEN appendError(b, NewError("InsertAndCopyRange: invalid dst row: %d"))
             ELSE IF dstC < 0
                  THEN appendError(b, NewError("InsertAndCopyRange: invalid dst column: %d"))
             ELSE LET dstRect == Rect(dstR, dstC, src.Height, src.Width)
                      b1 == InsertRange(b, sheetID, dstRect, id)
                      actualSrc == IF sheetID = srcSheetID /\ dstR <= src.Row
                                   THEN [src EXCEPT !.Row = src.Row + src.Height]
                                   ELSE src
                  IN  CopyRange(b1, srcSheetID, actualSrc, dstR, dstC, id + 1)

\* The views.  Each holds a pointer to the one Builder it was derived from
\* (sb.b, rb.sb.b, cb.sb.b) and no request or error of its own.
\* &SheetBuilder{b: b, sheetID: sheetID}
SheetBuilder(sheetID) == [kind |-> "SheetBuilder", sheetID |-> sheetID, start |-> 0, count |-> 0]

\* &RowBuilder{sb: sb, start: startRow, count: count}
RowBuilder(sb, startRow, count) ==
    [kind |-> "RowBuilder", sheetID |-> sb.sheetID, start |-> startRow, count |-> count]

\* &ColumnBuilder{sb: sb, start: startCol, count: count}
ColumnBuilder(sb, startCol, count) ==
    [kind |-> "ColumnBuilder", sheetID |-> sb.sheetID, start |-> startCol, count |-> count]

\* Variant of Row: the error is not recorded in the Builder.
RowDropsError(b, startRow, count) == b

\* sb.Row(startRow, count): the effect on the Builder sb.b
Row(b, startRow, count) ==
    IF startRow < 0 THEN appendError(b, NewError("Row: invalid start row: %d"))
    ELSE IF count < 1 THEN appendError(b, NewError("Row: invalid count: %d"))
    ELSE b

\* Variant of Column: a count of zero is accepted.
ColumnAcceptsZero(b, startCol, count) ==
    IF startCol < 0 THEN appendError(b, NewError("Row: invalid start col: %d"))
    ELSE IF count < 0 THEN appendError(b, NewError("Row: invalid count: %d"))
    ELSE b

\* sb.Column(startCol, count): the texts of its errors begin with "Row:"
Column(b, startCol, count) ==
    IF startCol < 0 THEN appendError(b, NewError("Row: invalid start col: %d"))
    ELSE IF count < 1 THEN appendError(b, NewError("Row: invalid count: %d"))
    ELSE b

\* sb.updateDimension(dimension, start, count, props, fields)
updateDimension(b, id) == AppendRequest(b, Request("UpdateDimensionProperties", id))

\* sb.SetColumnsHidden(startCol, count, hidden)
SetColumnsHidden(b, startCol, count, id) ==
    IF startCol <= 0
    THEN appendError(b, NewError("SetColumnsHidden: invalid start column: %d"))
    ELSE IF count <= 0 THEN appendError(b, NewError("SetColumnsHidden: invalid count: %d"))
    ELSE updateDimension(b, id)

\* sb.SetRowsHidden(startRow, count, hidden): the texts of its errors are
\* those of SetColumnsHidden
SetRowsHidden(b, startRow, count, id) ==
    IF startRow <= 0
    THEN appendError(b, NewError("SetColumnsHidden: invalid start row: %d"))
    ELSE IF count <= 0 THEN appendError(b, NewError("SetColumnsHidden: invalid count: %d"))
    ELSE updateDimension(b, id)

\* rb.Hide() and cb.Hide()
RowHide(b, rb, id) == SetRowsHidden(b, rb.start, rb.count, id)

ColumnHide(b, cb, id) == SetColumnsHidden(b, cb.start, cb.count, id)

\* rb.Show() and cb.Show()
RowShow(b, rb, id) == SetRowsHidden(b, rb.start, rb.count, id)

ColumnShow(b, cb, id) == SetColumnsHidden(b, cb.start, cb.count, id)

\* rb.SetHeight(pixels)
RowSetHeight(b, rb, pixels, id) ==
    IF pixels < 0 THEN appendError(b, NewError("SetHeight: pixels must be positive"))
    ELSE updateDimension(b, id)

\* cb.SetWidth(pixels): the text of its error is that of SetHeight
ColumnSetWidth(b, cb, pixels, id) ==
    IF pixels < 0 THEN appendError(b, NewError("SetHeight: pixels must be positive"))
    ELSE updateDimension(b, id)

\* sb.Requests(), rb.Requests() and cb.Requests() of views of the Builder b
SheetBuilderRequests(b) == Requests(b)

RowBuilderRequests(b) == Requests(b)

ColumnBuilderRequests(b) == Requests(b)

\* v.Requests() of the view v of the Builder b
ViewRequests(v, b) ==
    CASE v.kind = "SheetBuilder" -> SheetBuilderRequests(b)
      [] v.kind = "RowBuilder" -> RowBuilderRequests(b)
      [] v.kind = "ColumnBuilder" -> ColumnBuilderRequests(b)

\* the sheets a view can be taken of without recording an error
ValidSheetIDs == {sheetID \in SheetIDs : sheetID >= 0}

\* InsertAndCopyRange(src): a cell, a column down to the end of the sheet, a bad row
Rects == {Rect(0, 0, 1, 1), Rect(0, 0, toEnd, 1), Rect(-1, 0, 1, 1)}

\* InsertAndCopyRange between two sheets: the sheet of the view and of the
\* source, the source (a cell, the cell below it, a column down to the end of
\* the sheet), and the destination cell
CopySheetIDs == {0, 1}
CopyRects == {Rect(0, 0, 1, 1), Rect(1, 0, 1, 1), Rect(0, 0, toEnd, 1)}
DstRows == {0, 1}
DstCols == {0, 1}

----------------------------------------------------------------------------
(* The state as records, and the history *)

Exec == [requests |-> requests, units |-> units, limit |-> limit, err |-> err, Trace |-> Trace]

Bldr == [requests |-> b_requests, errs |-> b_errs, props |-> b_props, propFields |-> b_propFields]

SetExec(e) ==
    /\ requests' = e.requests
    /\ units' = e.units
    /\ limit' = e.limit
    /\ err' = e.err
    /\ Trace' = e.Trace

SetBldr(b) ==
    /\ b_requests' = b.requests
    /\ b_errs' = b.errs
    /\ b_props' = b.props
    /\ b_propFields' = b.propFields

\* the payloads of the successful calls among cs, concatenated
RECURSIVE Successful(_)
Successful(cs) ==
    IF cs = <<>> THEN <<>>
    ELSE (IF Head(cs).err = NilError THEN Head(cs).payload ELSE <<>>) \o Successful(Tail(cs))

Record(op, reqs, label, calls, events, ret, appended) ==
    last' = [op |-> op, reqs |-> reqs, label |-> label,
             calls |-> calls, events |-> events, ret |-> ret, appended |-> appended]

History(reqs, calls, appended) ==
    /\ admitted' = IF appended THEN admitted \o reqs ELSE admitted
    /\ capped' = (capped /\ (appended => Len(reqs) <= limit))
    /\ delivered' = delivered \o Successful(calls)

\* no setter called / the call of the setter of field f with value v
NoSetters == [f \in {} |-> ""]

Set(s, f, v) == [g \in DOMAIN s \cup {f} |-> IF g = f THEN v ELSE s[g]]

NoCall == [op |-> "new", reqs |-> <<>>, label |-> "", calls |-> <<>>, events |-> <<>>,
           ret |-> NilError, appended |-> FALSE]

----------------------------------------------------------------------------
(* Initial states and actions *)

Init ==
    /\ \/ /\ b_executor = TRUE
          /\ \E e \in {NewBatchUpdateExecutor(ClientBuilderLimit)} :
                /\ requests = e.requests /\ units = e.units /\ limit = e.limit
                /\ err = e.err /\ Trace = e.Trace /\ last = NoCall
       \/ /\ b_executor = FALSE
          /\ \E l \in LimitArgs : \E e \in {NewBatchUpdateExecutor(l)} :
                /\ requests = e.requests /\ units = e.units /\ limit = e.limit
                /\ err = e.err /\ Trace = e.Trace /\ last = NoCall
    /\ b_requests = NewBuilder.requests
    /\ b_errs = NewBuilder.errs
    /\ b_props = NewBuilder.props
    /\ b_propFields = NewBuilder.propFields
    /\ nextId = 1
    /\ admitted = <<>>
    /\ capped = TRUE
    /\ delivered = <<>>
    /\ setters = NoSetters
    /\ prepended = {}
    /\ views = {}

\* e.Queue(ctx, reqs, label) on a standalone executor
ExecQueue ==
    /\ ~b_executor
    /\ \E n \in 0..MaxNew, label \in Labels, o \in Outcomes :
          /\ nextId + n - 1 <= MaxQueued
          /\ Len(units) < MaxUnits
          /\ LET reqs == NewRequests(nextId, n)
                 q == Queue(Exec, reqs, label, o)
             IN  /\ SetExec(q.e)
                 /\ nextId' = nextId + n
                 /\ Record("Queue", reqs, label, Tag("Queue", q.calls), q.events, NilError, q.appended)
                 /\ History(reqs, q.calls, q.appended)
    /\ UNCHANGED <<b_executor, builderVars, callVars>>

\* e.Flush(ctx) on a standalone executor
ExecFlush ==
    /\ ~b_executor
    /\ \E o \in Outcomes :
          LET f == Flush(Exec, o)
          IN  /\ SetExec(f.e)
              /\ Record("Flush", <<>>, "", Tag("Flush", f.calls), f.events, f.ret, FALSE)
              /\ History(<<>>, f.calls, FALSE)
    /\ UNCHANGED <<b_executor, builderVars, nextId, callVars>>

\* e.Flush(ctx) on a standalone executor, the remote call succeeding
ExecFlushSucceeds ==
    /\ ~b_executor
    /\ LET f == Flush(Exec, NilError)
       IN  /\ SetExec(f.e)
           /\ Record("Flush", <<>>, "", Tag("Flush", f.calls), f.events, f.ret, FALSE)
           /\ History(<<>>, f.calls, FALSE)
    /\ UNCHANGED <<b_executor, builderVars, nextId, callVars>>

\* b.AppendRequest(request)
BuilderAppendRequest ==
    /\ nextId <= MaxStaged
    /\ Len(b_requests) < MaxBuilder
    /\ SetBldr(AppendRequest(Bldr, Request("Request", nextId)))
    /\ nextId' = nextId + 1
    /\ Record("AppendRequest", <<Request("Request", nextId)>>, "", <<>>, <<>>, NilError, FALSE)
    /\ UNCHANGED <<execVars, b_executor, admitted, capped, delivered, callVars>>

\* b.PrependRequest(request)
BuilderPrependRequest ==
    /\ nextId <= MaxStaged
    /\ Len(b_requests) < MaxBuilder
    /\ SetBldr(PrependRequest(Bldr, Request("Request", nextId)))
    /\ nextId' = nextId + 1
    /\ Record("PrependRequest", <<Request("Request", nextId)>>, "", <<>>, <<>>, NilError, FALSE)
    /\ prepended' = prepended \cup {nextId}
    /\ UNCHANGED <<execVars, b_executor, admitted, capped, delivered, setters, views>>

\* b.Flush(ctx)
BuilderFlushCall ==
    /\ \E o1 \in Outcomes, o2 \in Outcomes :
          LET r == BuilderFlush(Bldr, b_executor, Exec, o1, o2)
          IN  /\ Len(admitted) + Len(r.final) <= MaxAdmitted
              /\ SetExec(r.e)
              /\ SetBldr(r.b)
              /\ Record("Builder.Flush", r.final, "", r.calls, r.events, r.ret, r.appended)
              /\ History(r.final, r.calls, r.appended)
              /\ setters' = IF r.reset THEN NoSetters ELSE setters
    /\ UNCHANGED <<b_executor, nextId, prepended, views>>

\* b.WithLimit(l)
BuilderWithLimit ==
    /\ \E l \in WithLimitArgs :
          /\ limit' = IF b_executor THEN l ELSE limit
          /\ capped' = (capped /\ limit' = limit)
          /\ Record("WithLimit", <<>>, "", <<>>, <<>>, NilError, FALSE)
    /\ UNCHANGED <<requests, units, err, Trace, b_executor, builderVars, nextId, callVars,
                   admitted, delivered>>

\* b.WithTrace(trace)
BuilderWithTrace ==
    /\ \E t \in TraceArgs :
          /\ Trace' = IF b_executor THEN t ELSE Trace
          /\ Record("WithTrace", <<>>, "", <<>>, <<>>, NilError, FALSE)
    /\ UNCHANGED <<requests, units, limit, err, b_executor, builderVars, nextId, callVars,
                   admitted, capped, delivered>>

\* e.Trace = trace on a standalone executor
ExecSetTrace ==
    /\ ~b_executor
    /\ \E t \in TraceArgs :
          /\ Trace' = t
          /\ Record("SetTrace", <<>>, "", <<>>, <<>>, NilError, FALSE)
    /\ UNCHANGED <<requests, units, limit, err, b_executor, builderVars, nextId, callVars,
                   admitted, capped, delivered>>

\* e.Trace = trace on a standalone executor, one of the two callbacks unset
ExecSetPartialTrace ==
    /\ ~b_executor
    /\ \E t \in PartialTraces :
          /\ Trace' = t
          /\ Record("SetTrace", <<>>, "", <<>>, <<>>, NilError, FALSE)
    /\ UNCHANGED <<requests, units, limit, err, b_executor, builderVars, nextId, callVars,
                   admitted, capped, delivered>>

\* b.Title(title)
BuilderTitle ==
    /\ Len(b_propFields) < MaxFields
    /\ \E t \in Titles :
          /\ SetBldr(Title(Bldr, t))
          /\ setters' = Set(setters, "title", t)
          /\ Record("Title", <<>>, "", <<>>, <<>>, NilError, FALSE)
    /\ UNCHANGED <<execVars, b_executor, nextId, admitted, capped, delivered, prepended, views>>

\* b.Reset()
BuilderReset ==
    /\ SetBldr(Reset(Bldr))
    /\ setters' = NoSetters
    /\ Record("Reset", <<>>, "", <<>>, <<>>, NilError, FALSE)
    /\ UNCHANGED <<execVars, b_executor, nextId, admitted, capped, delivered, prepended, views>>

\* b.Locale(locale)
BuilderLocale ==
    /\ Len(b_propFields) < MaxFields
    /\ \E l \in Locales :
          /\ SetBldr(Locale(Bldr, l))
          /\ setters' = Set(setters, "locale", l)
          /\ Record("Locale", <<>>, "", <<>>, <<>>, NilError, FALSE)
    /\ UNCHANGED <<execVars, b_executor, nextId, admitted, capped, delivered, prepended, views>>

\* b.TimeZone(tz)
BuilderTimeZone ==
    /\ Len(b_propFields) < MaxFields
    /\ \E tz \in TimeZones :
          /\ SetBldr(TimeZone(Bldr, tz))
          /\ setters' = Set(setters, "timeZone", tz)
          /\ Record("TimeZone", <<>>, "", <<>>, <<>>, NilError, FALSE)
    /\ UNCHANGED <<execVars, b_executor, nextId, admitted, capped, delivered, prepended, views>>

\* b.Requests(): the finalization, with what it returned
BuilderRequests ==
    /\ SetBldr(AfterRequests(Bldr))
    /\ Record("Requests", Requests(Bldr).requests, "", <<>>, <<>>, Requests(Bldr).err, FALSE)
    /\ UNCHANGED <<execVars, b_executor, nextId, admitted, capped, delivered, callVars>>

\* A fluent call that allocates its requests from nextId on and leaves the
\* Builder as b2; head: it stages them with PrependRequest.
Staged(op, b2, head) ==
    LET n == Len(b2.requests) - Len(b_requests)
    IN  /\ nextId + n - 1 <= MaxStaged
        /\ Len(b2.requests) <= MaxBuilder
        /\ Len(b2.errs) <= MaxErrs
        /\ SetBldr(b2)
        /\ nextId' = nextId + n
        /\ prepended' = IF head THEN prepended \cup (nextId..(nextId + n - 1)) ELSE prepended
        /\ Record(op, <<>>, "", <<>>, <<>>, NilError, FALSE)
        /\ UNCHANGED <<execVars, b_executor, admitted, capped, delivered, setters, views>>

\* b.Sheet(sheetID)
BuilderSheet ==
    \E sheetID \in SheetIDs : Staged("Sheet", Sheet(Bldr, sheetID), FALSE)

\* b.AddSheet(sheetID, title, index)
BuilderAddSheet ==
    \E sheetID \in SheetIDs, index \in SheetIndexes :
        Staged("AddSheet", AddSheet(Bldr, sheetID, "Sheet", index, nextId), FALSE)

\* b.CopySheet(srcSheetID, toIndex, newNames...)
BuilderCopySheet ==
    \E srcSheetID \in SheetIDs, toIndex \in ToIndexes, newNames \in NameLists :
        Staged("CopySheet", CopySheet(Bldr, srcSheetID, toIndex, newNames, nextId), FALSE)

\* b.Sheet(sheetID).ExpandRows(count) for a valid sheetID
SheetExpandRows ==
    \E sheetID \in ValidSheetIDs, count \in Counts :
        Staged("ExpandRows", ExpandRows(Sheet(Bldr, sheetID), count, nextId), TRUE)

\* b.Sheet(sheetID).ExpandColumns(count) for a valid sheetID
SheetExpandColumns ==
    \E sheetID \in ValidSheetIDs, count \in Counts :
        Staged("ExpandColumns", ExpandColumns(Sheet(Bldr, sheetID), count, nextId), TRUE)

\* b.Sheet(sheetID).InsertColumns(0, count) for a valid sheetID
SheetInsertColumns ==
    \E sheetID \in ValidSheetIDs, count \in Counts :
        Staged("InsertColumns", InsertColumns(Sheet(Bldr, sheetID), 0, count, nextId), TRUE)

\* b.Sheet(sheetID).SetCellValue(row, 0, value) for a valid sheetID and a non-nil value
SheetSetCellValue ==
    \E sheetID \in ValidSheetIDs, row \in Indexes :
        Staged("SetCellValue", SetCellValue(Sheet(Bldr, sheetID), row, 0, FALSE, nextId), FALSE)

\* b.Sheet(sheetID).InsertAndCopyRange(srcSheetID, src, 0, 0, "") for a valid sheetID
SheetInsertAndCopyRange ==
    \E sheetID \in ValidSheetIDs, srcSheetID \in ValidSheetIDs, src \in Rects :
        Staged("InsertAndCopyRange",
               InsertAndCopyRange(Sheet(Bldr, sheetID), sheetID, srcSheetID, src, 0, 0, nextId),
               FALSE)

\* b.Sheet(sheetID).InsertAndCopyRange(srcSheetID, src, dstR, dstC, ""); the
\* history keeps the arguments of the call
SheetInsertAndCopyAt ==
    \E sheetID \in CopySheetIDs, srcSheetID \in CopySheetIDs, src \in CopyRects,
       dstR \in DstRows, dstC \in DstCols :
        LET b2 == InsertAndCopyRange(Sheet(Bldr, sheetID), sheetID, srcSheetID, src,
                                     dstR, dstC, nextId)
            n == Len(b2.requests) - Len(b_requests)
        IN  /\ nextId + n - 1 <= MaxStaged
            /\ Len(b2.requests) <= MaxBuilder
            /\ Len(b2.errs) <= MaxErrs
            /\ SetBldr(b2)
            /\ nextId' = nextId + n
            /\ last' = [op |-> "InsertAndCopyRange", reqs |-> <<>>, label |-> "",
                        calls |-> <<>>, events |-> <<>>, ret |-> NilError, appended |-> FALSE,
                        args |-> [sheetID |-> sheetID, srcSheetID |-> srcSheetID, src |-> src,
                                  dstR |-> dstR, dstC |-> dstC]]
            /\ UNCHANGED <<execVars, b_executor, admitted, capped, delivered, callVars>>

\* A call through a view or one that makes a view: the Builder is left as b2
\* and the caller holds the views vs; head as in Staged.
Viewed(op, kind, b2, vs, head) ==
    LET n == Len(b2.requests) - Len(b_requests)
    IN  /\ nextId + n - 1 <= MaxStaged
        /\ Len(b2.requests) <= MaxBuilder
        /\ Len(b2.errs) <= MaxErrs
        /\ Cardinality(vs) <= MaxViews
        /\ SetBldr(b2)
        /\ nextId' = nextId + n
        /\ views' = vs
        /\ prepended' = IF head THEN prepended \cup (nextId..(nextId + n - 1)) ELSE prepended
        /\ Record(op, <<>>, kind, <<>>, <<>>, NilError, FALSE)
        /\ UNCHANGED <<execVars, b_executor, admitted, capped, delivered, setters>>

\* sb := b.Sheet(sheetID)
ViewSheet ==
    \E sheetID \in SheetIDs :
        Viewed("Sheet", "Builder", Sheet(Bldr, sheetID),
               views \cup {SheetBuilder(sheetID)}, FALSE)

\* rb := sb.Row(startRow, count)
ViewRow ==
    \E sb \in views, startRow \in ViewStarts, count \in ViewCounts :
        /\ sb.kind = "SheetBuilder"
        /\ Viewed("Row", sb.kind, Row(Bldr, startRow, count),
                  views \cup {RowBuilder(sb, startRow, count)}, FALSE)

\* cb := sb.Column(startCol, count)
ViewColumn ==
    \E sb \in views, startCol \in ViewStarts, count \in ViewCounts :
        /\ sb.kind = "SheetBuilder"
        /\ Viewed("Column", sb.kind, Column(Bldr, startCol, count),
                  views \cup {ColumnBuilder(sb, startCol, count)}, FALSE)

\* sb.ExpandRows(count)
ViewExpandRows ==
    \E sb \in views, count \in ViewCounts :
        /\ sb.kind = "SheetBuilder"
        /\ Viewed("ExpandRows", sb.kind, ExpandRows(Bldr, count, nextId), views, TRUE)

\* rb.Hide()
ViewRowHide ==
    \E rb \in views :
        /\ rb.kind = "RowBuilder"
        /\ Viewed("Hide", rb.kind, RowHide(Bldr, rb, nextId), views, FALSE)

\* cb.Hide()
ViewColumnHide ==
    \E cb \in views :
        /\ cb.kind = "ColumnBuilder"
        /\ Viewed("Hide", cb.kind, ColumnHide(Bldr, cb, nextId), views, FALSE)

\* rb.Show()
ViewRowShow ==
    \E rb \in views :
        /\ rb.kind = "RowBuilder"
        /\ Viewed("Show", rb.kind, RowShow(Bldr, rb, nextId), views, FALSE)

\* cb.Show()
ViewColumnShow ==
    \E cb \in views :
        /\ cb.kind = "ColumnBuilder"
        /\ Viewed("Show", cb.kind, ColumnShow(Bldr, cb, nextId), views, FALSE)

\* rb.SetHeight(pixels)
ViewRowSetHeight ==
    \E rb \in views, pixels \in Pixels :
        /\ rb.kind = "RowBuilder"
        /\ Viewed("SetHeight", rb.kind, RowSetHeight(Bldr, rb, pixels, nextId), views, FALSE)

\* cb.SetWidth(pixels)
ViewColumnSetWidth ==
    \E cb \in views, pixels \in Pixels :
        /\ cb.kind = "ColumnBuilder"
        /\ Viewed("SetWidth", cb.kind, ColumnSetWidth(Bldr, cb, pixels, nextId), views, FALSE)

\* sb := b.Sheet(sheetID), the caller holds no other view
ScopedSheet ==
    \E sheetID \in SheetIDs :
        Viewed("Sheet", "Builder", Sheet(Bldr, sheetID), {SheetBuilder(sheetID)}, FALSE)

\* rb := sb.Row(startRow, count), the caller holds sb and rb
ScopedRow ==
    \E sb \in views, startRow \in ScopeStarts, count \in ScopeCounts :
        /\ sb.kind = "SheetBuilder"
        /\ Viewed("Row", sb.kind, Row(Bldr, startRow, count),
                  {sb, RowBuilder(sb, startRow, count)}, FALSE)

\* cb := sb.Column(startCol, count), the caller holds sb and cb
ScopedColumn ==
    \E sb \in views, startCol \in ScopeStarts, count \in ScopeCounts :
        /\ sb.kind = "SheetBuilder"
        /\ Viewed("Column", sb.kind, Column(Bldr, startCol, count),
                  {sb, ColumnBuilder(sb, startCol, count)}, FALSE)

\* sb.Requests(), rb.Requests(), cb.Requests()
ViewFinalize ==
    \E v \in views :
        /\ SetBldr(AfterRequests(Bldr))
        /\ Record("Requests", ViewRequests(v, Bldr).requests, v.kind,
                  <<>>, <<>>, ViewRequests(v, Bldr).err, FALSE)
        /\ UNCHANGED <<execVars, b_executor, nextId, admitted, capped, delivered, callVars>>

\* A standalone executor is driven through Queue, Flush and its Trace field;
\* the Builder of Client.Builder() through its own methods.
Next ==
    \/ ExecQueue
    \/ ExecFlush
    \/ ExecSetTrace
    \/ b_executor /\ BuilderAppendRequest
    \/ b_executor /\ BuilderReset
    \/ b_executor /\ BuilderFlushCall
    \/ b_executor /\ BuilderWithLimit

Spec == Init /\ [][Next]_vars

\* e := NewBatchUpdateExecutor(service, spreadsheetID, l), used without a Builder
InitExecutor == Init /\ b_executor = FALSE

\* The standalone executor: Queue and Flush.
NextExec ==
    \/ ExecQueue
    \/ ExecFlush

SpecExec == InitExecutor /\ [][NextExec]_vars

\* The standalone executor of a caller that calls Flush again and again, the
\* remote call succeeding in the end: a Flush that succeeds is not put off
\* for ever while it would change the state.
SpecRetry == InitExecutor /\ [][NextExec]_vars /\ WF_vars(ExecFlushSucceeds)

\* The standalone executor with its trace: all, one or none of the callbacks set.
NextTrace ==
    \/ ExecQueue
    \/ ExecFlush
    \/ ExecSetTrace
    \/ ExecSetPartialTrace

SpecTrace == InitExecutor /\ [][NextTrace]_vars

\* b := client.Builder()
InitClientBuilder == Init /\ b_executor = TRUE

\* The Builder of Client.Builder(): staging and Flush.
NextBuilder ==
    \/ BuilderAppendRequest
    \/ BuilderLocale
    \/ BuilderFlushCall

SpecBuilder == InitClientBuilder /\ [][NextBuilder]_vars

\* The order of the staged requests: tail appends, head prepends, a setter.
NextOrder ==
    \/ BuilderAppendRequest
    \/ BuilderPrependRequest
    \/ SheetExpandRows
    \/ SheetExpandColumns
    \/ SheetInsertColumns
    \/ BuilderLocale

SpecOrder == InitClientBuilder /\ [][NextOrder]_vars

\* The spreadsheet properties: the setters among staging calls, and Reset.
NextProps ==
    \/ BuilderTitle
    \/ BuilderLocale
    \/ BuilderTimeZone
    \/ BuilderAppendRequest
    \/ BuilderPrependRequest
    \/ BuilderReset

SpecProps == InitClientBuilder /\ [][NextProps]_vars

\* The fluent calls that validate their arguments, among a setter and Reset.
NextErrors ==
    \/ BuilderCopySheet
    \/ SheetSetCellValue
    \/ SheetInsertAndCopyRange
    \/ BuilderLocale
    \/ BuilderReset

SpecErrors == InitClientBuilder /\ [][NextErrors]_vars

\* The finalization among staging calls, recorded errors and Reset.
NextFinal ==
    \/ BuilderAppendRequest
    \/ BuilderLocale
    \/ BuilderSheet
    \/ BuilderRequests
    \/ BuilderReset

SpecFinal == InitClientBuilder /\ [][NextFinal]_vars

\* Builder.Flush on the Builder of Client.Builder() and on the unbound Builder
\* of NewBuilder(), among staging calls and a setter.
NextFlush ==
    \/ BuilderAppendRequest
    \/ BuilderLocale
    \/ BuilderFlushCall

SpecFlush == Init /\ [][NextFlush]_vars

\* Builder.Flush of both Builders among staging calls, recorded errors and Reset.
NextInvalid ==
    \/ BuilderAppendRequest
    \/ BuilderSheet
    \/ BuilderFlushCall
    \/ BuilderReset

SpecInvalid == Init /\ [][NextInvalid]_vars

\* Reset among staging calls, a setter, recorded errors and the configuration
\* of the executor.
NextReset ==
    \/ BuilderAppendRequest
    \/ BuilderLocale
    \/ BuilderSheet
    \/ BuilderReset
    \/ BuilderWithLimit
    \/ BuilderWithTrace

SpecReset == InitClientBuilder /\ [][NextReset]_vars

\* The views of one Builder: made and used in any order, beside the Builder.
NextViews ==
    \/ ViewSheet
    \/ ViewRow
    \/ ViewColumn
    \/ ViewExpandRows
    \/ ViewRowHide
    \/ ViewColumnHide
    \/ ViewFinalize
    \/ BuilderAppendRequest

SpecViews == InitClientBuilder /\ [][NextViews]_vars

\* One sheet view and one row or column view at a time: the views are made
\* with accepted and rejected arguments and the row and column methods called.
NextScoped ==
    \/ ScopedSheet
    \/ ScopedRow
    \/ ScopedColumn
    \/ ViewRowHide
    \/ ViewRowShow
    \/ ViewRowSetHeight
    \/ ViewColumnHide
    \/ ViewColumnShow
    \/ ViewColumnSetWidth

SpecScoped == InitClientBuilder /\ [][NextScoped]_vars

\* Sheet creation among the other staging calls and the finalization.
NextSheets ==
    \/ BuilderAppendRequest
    \/ BuilderPrependRequest
    \/ BuilderAddSheet
    \/ SheetExpandRows
    \/ BuilderLocale
    \/ BuilderRequests

SpecSheets == InitClientBuilder /\ [][NextSheets]_vars

\* The insertion before a copy, between two sheets and at several places.
NextCopy ==
    \/ SheetInsertAndCopyAt
    \/ BuilderAppendRequest

SpecCopy == InitClientBuilder /\ [][NextCopy]_vars

----------------------------------------------------------------------------
(* Properties *)

IsPrefix(s, t) == Len(s) <= Len(t) /\ SubSeq(t, 1, Len(s)) = s

IsSuffix(s, t) == Len(s) <= Len(t) /\ SubSeq(t, Len(t) - Len(s) + 1, Len(t)) = s

\* the call l made a remote call from Queue (the flush before appending) that failed
ImplicitFailed(l) == \E i \in 1..Len(l.calls) : l.calls[i].via = "Queue" /\ l.calls[i].err # NilError

\* the call l made a remote call from Flush that failed / that succeeded
ExplicitFailed(l) == \E i \in 1..Len(l.calls) : l.calls[i].via = "Flush" /\ l.calls[i].err # NilError
ExplicitDone(l) == \E i \in 1..Len(l.calls) : l.calls[i].via = "Flush" /\ l.calls[i].err = NilError

\* C1: the payloads of the successful remote calls, concatenated in call
\* order, are a prefix of the admitted submissions concatenated in admission
\* order.
C1_DeliveredInAdmissionOrder == IsPrefix(delivered, admitted)

\* a successful remote call that was not the first one, with requests admitted after it
C1_Witness ==
    /\ Len(last.calls) >= 1
    /\ last.calls[1].err = NilError
    /\ Len(delivered) > Len(last.calls[1].payload)
    /\ Len(admitted) > Len(delivered)

\* Queue of unit B (this step) right after Queue of unit A into an empty
\* buffer, with minA <= a < limit and a + b > limit: one remote call, carrying
\* A; if it succeeds the buffer is B and the only unit is B.
C2_Step(minA) ==
    LET a == Len(last.reqs)
        b == Len(last'.reqs)
    IN  (/\ last.op = "Queue" /\ last.appended /\ requests = last.reqs
         /\ last'.op = "Queue"
         /\ a >= minA /\ a < limit /\ a + b > limit)
        => /\ Len(last'.calls) = 1
           /\ last'.calls[1].payload = last.reqs
           /\ last'.calls[1].err = NilError =>
                 /\ requests' = last'.reqs
                 /\ Len(units') = 1
                 /\ units'[1].StartIndex = 0
                 /\ units'[1].EndIndex = b - 1
                 /\ units'[1].Count = b

\* C2 as stated: for every a < L with a + b > L, admitting A into an empty
\* buffer and then B makes exactly one implicit remote call carrying A.
C2_Original == [][C2_Step(0)]_vars

\* C2 amended: the same for 1 <= a < L.
C2_OneImplicitFlush == [][C2_Step(1)]_vars

\* B was admitted after the implicit flush of the single unit A succeeded
C2_Witness ==
    /\ last.op = "Queue" /\ last.appended
    /\ Len(last.calls) = 1
    /\ last.calls[1].err = NilError
    /\ Len(last.calls[1].units) = 1
    /\ Len(last.calls[1].payload) >= 1
    /\ Len(last.calls[1].payload) < limit
    /\ Len(last.calls[1].payload) + Len(last.reqs) > limit
    /\ requests = last.reqs

\* C3: while the limit has never changed and no admitted submission was larger
\* than it, every remote call carries at most limit requests.
C3_PayloadWithinLimit ==
    capped => \A i \in 1..Len(last.calls) : Len(last.calls[i].payload) <= limit

\* an implicit flush of a buffer that is exactly full
C3_Witness ==
    /\ capped
    /\ Len(last.calls) = 1
    /\ last.calls[1].via = "Queue"
    /\ Len(last.calls[1].payload) = limit

\* C4: a failed explicit Flush leaves the buffer and the units as they were,
\* and its error carries exactly these units and unwraps to the transport
\* error.
C4_FailedFlushKeepsBuffer ==
    [][/\ (last'.op = "Flush" /\ last'.ret # NilError) =>
              /\ requests' = requests
              /\ units' = units
              /\ last'.ret[1].kind = "BatchUpdateError"
              /\ last'.ret[1].Units = units
              /\ Unwrap(last'.ret) = last'.calls[1].err
              /\ last'.calls[1].err # NilError
       /\ (last'.op = "Builder.Flush" /\ ExplicitFailed(last')) =>
              /\ requests' = last'.calls[Len(last'.calls)].payload
              /\ units' = last'.calls[Len(last'.calls)].units
              /\ Unwrap(last'.ret)[1].kind = "BatchUpdateError"
              /\ Unwrap(last'.ret)[1].Units = units'
              /\ Unwrap(Unwrap(last'.ret)) = last'.calls[Len(last'.calls)].err
      ]_vars

\* an explicit Flush of two units has failed
C4_Witness ==
    /\ last.op = "Flush"
    /\ last.ret # NilError
    /\ Len(units) >= 2
    /\ Len(requests) >= 2

\* C5: after a Flush whose remote call succeeded the buffer and the units are
\* empty, and a Flush right after it makes no remote call and returns nil.
C5_FlushClears ==
    [][/\ ExplicitDone(last') => (requests' = <<>> /\ units' = <<>>)
       /\ (last.op = "Flush" /\ ExplicitDone(last) /\ last'.op = "Flush") =>
              (last'.calls = <<>> /\ last'.ret = NilError /\ requests' = <<>> /\ units' = <<>>)
      ]_vars

\* an explicit Flush of a non-empty buffer has succeeded
C5_Witness ==
    /\ last.op = "Flush"
    /\ ExplicitDone(last)
    /\ last.ret = NilError
    /\ requests = <<>>

\* C6: when the flush made by Queue before appending fails, the sticky error
\* is set, nothing is appended and the staged buffer and units are as before.
C6_FailedImplicitFlush ==
    [][ImplicitFailed(last') =>
           /\ err' # NilError
           /\ err'[1].Units = units
           /\ Unwrap(err') = last'.calls[1].err
           /\ ~last'.appended
           /\ last'.calls[1].payload = requests
           /\ last'.op = "Queue" => (requests' = requests /\ units' = units)
           /\ (last'.op = "Builder.Flush" /\ ExplicitFailed(last')) =>
                  (requests' = requests /\ units' = units)
           /\ \A i \in 1..Len(last'.calls) :
                  last'.calls[i].payload = requests /\ last'.calls[i].units = units
      ]_vars

\* Queue has just failed to flush the staged requests
C6_Witness ==
    /\ last.op = "Queue"
    /\ ImplicitFailed(last)
    /\ Len(last.reqs) >= 1
    /\ err # NilError
    /\ requests # <<>>

\* C7: once the sticky error is set it stays set, and every later Queue
\* leaves the buffer and the units unchanged and makes no remote call.
C7_StickyForever ==
    [][err # NilError =>
           /\ err' # NilError
           /\ last'.op = "Queue" =>
                  /\ requests' = requests
                  /\ units' = units
                  /\ last'.calls = <<>>
                  /\ ~last'.appended
           /\ last'.op = "Builder.Flush" =>
                  /\ ~last'.appended
                  /\ \A i \in 1..Len(last'.calls) :
                         /\ last'.calls[i].via = "Flush"
                         /\ last'.calls[i].payload = requests
                         /\ last'.calls[i].units = units
      ]_vars

\* a Queue of some requests was refused because of the sticky error
C7_Witness ==
    /\ err # NilError
    /\ last.op = "Queue"
    /\ Len(last.reqs) >= 1
    /\ last.calls = <<>>
    /\ ~last.appended

\* C8: a failed explicit Flush does not touch the sticky error; the Queue after
\* it is not refused (it appends unless its own flush fails), and the Flush
\* after it sends the same requests again.
C8_FailedFlushNotSticky ==
    [][/\ (last'.op = "Flush" /\ last'.ret # NilError) => err' = err
       /\ (last'.op = "Builder.Flush" /\ ExplicitFailed(last') /\ ~ImplicitFailed(last')) =>
              err' = err
       /\ (last.op = "Flush" /\ last.ret # NilError /\ err = NilError /\ last'.op = "Queue") =>
              \/ ImplicitFailed(last')
              \/ last'.appended /\ IsSuffix(last'.reqs, requests')
       /\ (last.op = "Flush" /\ last.ret # NilError /\ last'.op = "Flush") =>
              /\ Len(last'.calls) = 1
              /\ last'.calls[1].payload = last.calls[1].payload
              /\ last'.calls[1].units = last.calls[1].units
      ]_vars

\* an explicit Flush has failed on an executor without sticky error
C8_Witness ==
    /\ last.op = "Flush"
    /\ ExplicitFailed(last)
    /\ err = NilError
    /\ requests = last.calls[1].payload

\* C9: when Builder.Flush returns nil for a non-empty finalized sequence,
\* every request of that sequence was carried by a successful remote call.
C9_NoSilentLoss ==
    (last.op = "Builder.Flush" /\ last.ret = NilError /\ last.reqs # <<>>) =>
        \A i \in 1..Len(last.reqs) :
            \E j \in 1..Len(delivered) : delivered[j] = last.reqs[i]

\* C10: no request staged in the Builder is carried twice by successful
\* remote calls (neither by two calls nor twice in one payload).
C10_DeliveredAtMostOnce ==
    \A i, j \in 1..Len(delivered) :
        (i # j /\ delivered[i].id > 0) => delivered[i].id # delivered[j].id

----------------------------------------------------------------------------
(* Properties of the Builder *)

PropertyUpdate == "UpdateSpreadsheetProperties"

\* C11: when Builder.Flush returns nil for a non-empty finalized sequence,
\* the Builder has been reset: no staged request, no recorded error, no
\* properties and no field names, so that finalizing it returns no request
\* and no error.
C11_FlushResets ==
    [][(last'.op = "Builder.Flush" /\ last'.ret = NilError /\ Len(last'.reqs) > 0) =>
          /\ b_requests' = <<>>
          /\ b_errs' = <<>>
          /\ b_props'.nil
          /\ b_propFields' = <<>>
          /\ Requests(Bldr') = [requests |-> <<>>, err |-> NilError]
      ]_vars

\* Builder.Flush returned nil after its executor admitted staged requests
\* headed by the property update
C11_Witness ==
    /\ last.op = "Builder.Flush"
    /\ last.ret = NilError
    /\ last.appended
    /\ Len(last.reqs) >= 2
    /\ last.reqs[1].kind = PropertyUpdate
    /\ Bldr = NewBuilder

\* C12: when Builder.Flush returns an error, the staged requests, the
\* recorded errors, the properties and their field names are those before
\* the call, and finalizing again returns what this call finalized, the
\* property update included.
C12_FailedFlushKeepsBuilder ==
    [][(last'.op = "Builder.Flush" /\ last'.ret # NilError) =>
          /\ Bldr' = Bldr
          /\ Requests(Bldr') = Requests(Bldr)
          /\ Requests(Bldr').requests = last'.reqs
      ]_vars

\* Builder.Flush failed in its remote call; the property update and the
\* staged requests are still finalized
C12_Witness ==
    /\ last.op = "Builder.Flush"
    /\ last.ret # NilError
    /\ ExplicitFailed(last)
    /\ Len(b_requests) >= 1
    /\ Len(last.reqs) = Len(b_requests) + 1
    /\ last.reqs[1].kind = PropertyUpdate
    /\ Requests(Bldr).requests = last.reqs

\* the requests of reqs the caller staged with AppendRequest / with PrependRequest
TailAppended(reqs) ==
    SelectSeq(reqs, LAMBDA x : x.kind # PropertyUpdate /\ x.id \notin prepended)

HeadPrepended(reqs) == SelectSeq(reqs, LAMBDA x : x.id \in prepended)

Staging(reqs) == SelectSeq(reqs, LAMBDA x : x.kind # PropertyUpdate)

\* the requests of s are in the order of their allocation / in the reverse order
InCallOrder(s) == \A i, j \in 1..Len(s) : i < j => s[i].id < s[j].id

InReverseCallOrder(s) == \A i, j \in 1..Len(s) : i < j => s[i].id > s[j].id

\* C13: in the finalized sequence of a Builder without recorded errors, the
\* requests staged by AppendRequest are in the order of the calls that
\* appended them, whatever prepends and setters came between.
C13_AppendedInCallOrder ==
    Requests(Bldr).err = NilError => InCallOrder(TailAppended(Requests(Bldr).requests))

\* two appends with a prepend between them, and a setter: the finalized
\* sequence is the property update, the prepended request and the two appended
C13_Witness ==
    /\ Requests(Bldr).err = NilError
    /\ Len(Requests(Bldr).requests) = 4
    /\ Requests(Bldr).requests[1].kind = PropertyUpdate
    /\ Len(TailAppended(Requests(Bldr).requests)) = 2
    /\ \E x \in prepended : TailAppended(b_requests)[1].id < x /\ x < TailAppended(b_requests)[2].id

\* C14: in the finalized sequence of a Builder without recorded errors, the
\* requests staged by PrependRequest (ExpandRows, ExpandColumns,
\* InsertColumns) are in the reverse order of their calls and come before
\* every appended request, so that the one prepended last is the first
\* request that is not the property update.
C14_PrependedInReverseOrder ==
    Requests(Bldr).err = NilError =>
        LET final == Staging(Requests(Bldr).requests)
            heads == HeadPrepended(final)
        IN  /\ InReverseCallOrder(heads)
            /\ heads = SubSeq(final, 1, Len(heads))
            /\ \A i \in 1..Len(final) :
                  final[i].id \in prepended => final[1].id >= final[i].id

\* two prepends after an append: the request prepended last is first
C14_Witness ==
    /\ Requests(Bldr).err = NilError
    /\ Len(HeadPrepended(b_requests)) = 2
    /\ Len(TailAppended(b_requests)) = 1
    /\ b_requests[3].id < b_requests[2].id
    /\ b_requests[2].id < b_requests[1].id
    /\ b_requests[1].kind = "InsertDimension"

PropertyUpdates(reqs) == SelectSeq(reqs, LAMBDA x : x.kind = PropertyUpdate)

\* the value of the field named f in the properties p
PropertyOf(p, f) ==
    CASE f = "title" -> p.Title
      [] f = "locale" -> p.Locale
      [] f = "timeZone" -> p.TimeZone

\* C15: the finalized sequence of a Builder without recorded errors holds
\* exactly one property update, as its first element, when Title, Locale or
\* TimeZone was called since the last Reset, and none otherwise.
C15_OnePropertyUpdateFirst ==
    Requests(Bldr).err = NilError =>
        IF DOMAIN setters # {}
        THEN /\ Len(PropertyUpdates(Requests(Bldr).requests)) = 1
             /\ Requests(Bldr).requests[1].kind = PropertyUpdate
        ELSE Len(PropertyUpdates(Requests(Bldr).requests)) = 0

\* a setter, then an append, then a prepend: the property update is ahead of both
C15_Witness ==
    /\ DOMAIN setters # {}
    /\ last.op = "PrependRequest"
    /\ Len(TailAppended(b_requests)) >= 1
    /\ Len(Requests(Bldr).requests) = Len(b_requests) + 1
    /\ Requests(Bldr).requests[1].kind = PropertyUpdate
    /\ Requests(Bldr).requests[2] = last.reqs[1]

\* C16: the property update of the finalized sequence carries, for each field
\* whose setter was called since the last Reset, the value of the last such
\* call, and its field list names exactly those fields.
C16_LatestValuesOfTouchedFields ==
    (Requests(Bldr).err = NilError /\ DOMAIN setters # {}) =>
        LET u == Requests(Bldr).requests[1]
        IN  /\ u.kind = PropertyUpdate
            /\ {u.fields[i] : i \in 1..Len(u.fields)} = DOMAIN setters
            /\ \A f \in DOMAIN setters : PropertyOf(u.props, f) = setters[f]

\* Title was called twice: the field list names title twice and the update
\* carries the title of the second call
C16_Witness ==
    /\ Requests(Bldr).err = NilError
    /\ last.op = "Title"
    /\ b_propFields = <<"title", "title">>
    /\ Requests(Bldr).requests[1].props.Title = "Draft"
    /\ Requests(Bldr).requests[1].fields = b_propFields

\* C17: finalizing a Builder with at least one recorded error returns no
\* request and the join of all recorded errors, in the order they were
\* recorded, whatever was staged before or after them.
C17_ErrorsJoined ==
    Len(b_errs) > 0 =>
        /\ Requests(Bldr).requests = <<>>
        /\ Requests(Bldr).err # NilError
        /\ Requests(Bldr).err[1].kind = "join"
        /\ Requests(Bldr).err[1].msg = [i \in 1..Len(b_errs) |-> b_errs[i][1].msg[1]]

\* two different errors are recorded, requests and a property are staged,
\* and the last call was a valid one
C17_Witness ==
    /\ Len(b_errs) = 2
    /\ b_errs[1] # b_errs[2]
    /\ Len(b_requests) >= 1
    /\ last.op = "Locale"
    /\ Len(Requests(Bldr).err[1].msg) = 2

\* C18: a fluent call that records an error leaves the staged requests, the
\* properties and their field names as they were.
C18_NoPartialMutation ==
    [][Len(b_errs') > Len(b_errs) =>
          /\ b_requests' = b_requests
          /\ b_props' = b_props
          /\ b_propFields' = b_propFields
      ]_vars

\* C19 as stated: once an error is recorded, finalization fails after every
\* later call on the Builder.
C19_Original == [][Len(b_errs) > 0 => Requests(Bldr').err # NilError]_vars

\* C19 amended: once an error is recorded, finalization fails after every
\* later call on the Builder but Reset.
C19_FailsUntilReset ==
    [][(Len(b_errs) > 0 /\ last'.op # "Reset") => Requests(Bldr').err # NilError]_vars

\* an error is recorded beside a staged request, and the finalization that
\* came later failed
C19_Witness ==
    /\ Len(b_errs) > 0
    /\ Len(b_requests) >= 1
    /\ last.op = "Requests"
    /\ last.ret # NilError
    /\ last.reqs = <<>>

\* C20: Requests() leaves the staged requests, the recorded errors, the
\* properties and their field names as they were, a second call right after
\* it returns what it returned, and no property update is among the staged
\* requests.
C20_FinalizationReadOnly ==
    [][last'.op = "Requests" =>
          /\ Bldr' = Bldr
          /\ Requests(Bldr').requests = last'.reqs
          /\ Requests(Bldr').err = last'.ret
          /\ PropertyUpdates(b_requests') = <<>>
      ]_vars

\* Requests() returned the property update followed by the staged requests
C20_Witness ==
    /\ last.op = "Requests"
    /\ last.ret = NilError
    /\ Len(last.reqs) >= 2
    /\ last.reqs[1].kind = PropertyUpdate
    /\ b_requests = Tail(last.reqs)

----------------------------------------------------------------------------
(* Properties of the executor: submissions, hooks, configuration *)

\* C22: a Queue that is not refused leaves all requests of the submission
\* at the end of the buffer, in order, under one new unit that spans exactly
\* them, whatever the limit; into an empty buffer it makes no remote call;
\* and every remote call of Queue or Flush carries the whole buffer.
C22_SubmissionNeverSplit ==
    [][/\ (last'.op = "Queue" /\ last'.appended) =>
              LET n == Len(last'.reqs)
                  u == units'[Len(units')]
              IN  /\ IsSuffix(last'.reqs, requests')
                  /\ u.Count = n
                  /\ u.StartIndex = Len(requests') - n
                  /\ u.EndIndex = Len(requests') - 1
                  /\ requests = <<>> => (last'.calls = <<>> /\ requests' = last'.reqs)
       /\ last'.op \in {"Queue", "Flush"} =>
              /\ Len(last'.calls) <= 1
              /\ \A i \in 1..Len(last'.calls) : last'.calls[i].payload = requests
      ]_vars

\* a submission larger than the limit, admitted alone, was sent by one
\* successful remote call
C22_Witness ==
    /\ last.op = "Flush"
    /\ Len(last.calls) = 1
    /\ last.calls[1].err = NilError
    /\ Len(last.calls[1].units) = 1
    /\ Len(last.calls[1].payload) > limit
    /\ last.calls[1].units[1].Count = Len(last.calls[1].payload)

\* the events of evs that are invocations of hook
Invocations(evs, hook) == SelectSeq(evs, LAMBDA x : x.hook = hook)

\* the callbacks that are set in the trace t
StartSet(t) == ~t.nil /\ t.OnFlushStart

DoneSet(t) == ~t.nil /\ t.OnFlushDone

\* C23: a Queue or Flush invokes OnFlushStart, if set, once right before
\* each remote call it makes and OnFlushDone, if set, once right after it,
\* both with a status whose RequestCount is the size of the buffer sent and
\* whose Units are the units retained at the call, OnFlushDone also with the
\* outcome of the call; an unset trace or callback is skipped, and without a
\* remote call nothing is invoked.
C23_HooksAroundEachCall ==
    last.op \in {"Queue", "Flush"} =>
        LET evs == last.events
            n == Len(last.calls)
        IN  /\ Len(Invocations(evs, "BatchUpdate")) = n
            /\ Len(Invocations(evs, "OnFlushStart")) = IF StartSet(Trace) THEN n ELSE 0
            /\ Len(Invocations(evs, "OnFlushDone")) = IF DoneSet(Trace) THEN n ELSE 0
            /\ Len(evs) = Len(Invocations(evs, "BatchUpdate"))
                             + Len(Invocations(evs, "OnFlushStart"))
                             + Len(Invocations(evs, "OnFlushDone"))
            /\ \A k \in 1..Len(evs) :
                  evs[k].hook = "BatchUpdate" =>
                      LET c == last.calls[Len(Invocations(SubSeq(evs, 1, k), "BatchUpdate"))]
                          status == [RequestCount |-> Len(c.payload), Units |-> c.units]
                      IN  /\ StartSet(Trace) =>
                                /\ k > 1
                                /\ evs[k - 1].hook = "OnFlushStart"
                                /\ evs[k - 1].status = status
                          /\ DoneSet(Trace) =>
                                /\ k < Len(evs)
                                /\ evs[k + 1].hook = "OnFlushDone"
                                /\ evs[k + 1].status = status
                                /\ evs[k + 1].err = c.err

\* the remote call made by Queue before appending failed, between the two hooks
C23_Witness ==
    /\ last.op = "Queue"
    /\ ImplicitFailed(last)
    /\ Trace = FullTrace
    /\ Len(last.events) = 3
    /\ last.events[3].err # NilError
    /\ Len(last.events[1].status.Units) >= 1

\* C24: a Flush of an executor whose buffer is empty makes no remote call,
\* invokes no hook, returns nil and leaves the buffer, the units, the limit
\* and the sticky error unchanged.
C24_FlushOfEmptyBufferIsNoOp ==
    [][(last'.op = "Flush" /\ requests = <<>>) =>
           /\ last'.calls = <<>>
           /\ last'.events = <<>>
           /\ last'.ret = NilError
           /\ requests' = requests
           /\ units' = units
           /\ limit' = limit
           /\ err' = err
      ]_vars

\* a Flush of an empty buffer with both hooks set, while units of empty
\* submissions are retained
C24_Witness ==
    /\ last.op = "Flush"
    /\ last.calls = <<>>
    /\ last.ret = NilError
    /\ requests = <<>>
    /\ units # <<>>
    /\ Trace = FullTrace

\* the ordinal of the synthesized label of the unit admitted last
Ordinal(us) == us[Len(us)].Label.args[1]

\* C30 as stated: the ordinal of a synthesized label is the admission order of
\* the unit over the life of the executor, so of two units admitted by
\* consecutive calls the second has the ordinal of the first plus one, also
\* when the first was flushed in between.
C30_OrdinalOverLifetime ==
    [][(/\ last.op = "Queue" /\ last.appended /\ last.label = ""
        /\ last'.op = "Queue" /\ last'.appended /\ last'.label = "") =>
           Ordinal(units') = Ordinal(units) + 1
      ]_vars

\* C30, amended: the ordinal of a synthesized label is the position of the
\* unit among the units retained since the last successful remote call, so it
\* restarts from 1 after a flush; start and end are the first and last buffer
\* indices of the submission.
C30_OrdinalAmongRetainedUnits ==
    [][(last'.op = "Queue" /\ last'.appended /\ last'.label = "") =>
           LET u == units'[Len(units')]
               n == Len(last'.reqs)
               start == Len(requests') - n
               retained == IF last'.calls # <<>> THEN 0 ELSE Len(units)
           IN  /\ Len(units') = retained + 1
               /\ u.Label = SprintfUnit(retained + 1, start, start + n - 1)
               /\ u.StartIndex = start
               /\ u.EndIndex = start + n - 1
               /\ \A k \in 1..n : requests'[start + k] = last'.reqs[k]
      ]_vars

\* a unit admitted after earlier units were flushed carries the ordinal 1 again
C30_Witness ==
    /\ last.op = "Queue"
    /\ last.appended
    /\ last.label = ""
    /\ Len(last.calls) = 1
    /\ Len(last.calls[1].units) >= 2
    /\ Len(units) = 1
    /\ Ordinal(units) = 1
    /\ Len(last.reqs) >= 2

----------------------------------------------------------------------------
(* Properties of Reset and Builder.Flush *)

\* C21: Reset leaves the Builder with no staged request, no recorded error,
\* no properties and no touched field, whatever it held, so that Requests
\* right after it returns an empty sequence and no error; the executor
\* (buffer, units, limit, sticky error, trace) is as before.
C21_ResetEmptiesBuilderOnly ==
    [][last'.op = "Reset" =>
           /\ b_requests' = <<>>
           /\ b_errs' = <<>>
           /\ b_props' = NilProps
           /\ b_propFields' = <<>>
           /\ Requests(Bldr') = [requests |-> <<>>, err |-> NilError]
           /\ Exec' = Exec
      ]_vars

\* a Reset after requests were staged, on an executor that was reconfigured
C21_Witness ==
    /\ last.op = "Reset"
    /\ Bldr = NewBuilder
    /\ nextId > 1
    /\ limit # ClientBuilderLimit
    /\ Trace # NilTrace

\* the finalization of the Builder is empty and has no error
EmptyFinalization == Requests(Bldr) = [requests |-> <<>>, err |-> NilError]

\* C25: Builder.Flush of a Builder whose finalization is empty and without
\* error returns nil, makes no remote call and leaves the buffer and the units
\* of the executor (and the rest of it, and the Builder) unchanged, with and
\* without a bound executor.
C25_FlushOfNothingIsNoOp ==
    [][(last'.op = "Builder.Flush" /\ EmptyFinalization) =>
           /\ last'.ret = NilError
           /\ last'.calls = <<>>
           /\ last'.events = <<>>
           /\ ~last'.appended
           /\ Exec' = Exec
           /\ Bldr' = Bldr
      ]_vars

\* Builder.Flush of an emptied Builder while the executor still holds the
\* requests of a failed flush
C25_Witness ==
    /\ b_executor
    /\ last.op = "Builder.Flush"
    /\ last.reqs = <<>>
    /\ last.ret = NilError
    /\ last.calls = <<>>
    /\ Bldr = NewBuilder
    /\ requests # <<>>
    /\ units # <<>>

\* C26: Builder.Flush of a Builder without executor whose finalization is not
\* empty and has no error returns the error "Flush: cannot flush builder
\* without a client", makes no remote call and leaves the requests, the
\* errors and the properties of the Builder unchanged.
C26_FlushWithoutClientFails ==
    [][(/\ last'.op = "Builder.Flush"
        /\ ~b_executor
        /\ Requests(Bldr).err = NilError
        /\ Requests(Bldr).requests # <<>>) =>
           /\ last'.ret = NewError("Flush: cannot flush builder without a client")
           /\ last'.ret # NilError
           /\ last'.calls = <<>>
           /\ last'.events = <<>>
           /\ ~last'.appended
           /\ Bldr' = Bldr
           /\ Exec' = Exec
      ]_vars

\* the failed Builder.Flush of an unbound Builder with a staged request and a
\* touched property
C26_Witness ==
    /\ ~b_executor
    /\ last.op = "Builder.Flush"
    /\ last.ret = NewError("Flush: cannot flush builder without a client")
    /\ Len(last.reqs) >= 2
    /\ b_requests # <<>>
    /\ ~b_props.nil
    /\ b_propFields # <<>>

\* C27: Builder.Flush of a Builder with a recorded error returns the join of
\* the recorded errors, admits nothing, makes no remote call and leaves the
\* Builder and the executor unchanged.
C27_FlushWithErrorsFails ==
    [][(last'.op = "Builder.Flush" /\ b_errs # <<>>) =>
           /\ last'.ret = Join(b_errs)
           /\ last'.ret # NilError
           /\ last'.calls = <<>>
           /\ last'.events = <<>>
           /\ ~last'.appended
           /\ admitted' = admitted
           /\ Bldr' = Bldr
           /\ Exec' = Exec
      ]_vars

\* the failed Builder.Flush of a bound Builder with two recorded errors and a
\* staged request, while the executor holds the requests of a failed flush
C27_Witness ==
    /\ b_executor
    /\ last.op = "Builder.Flush"
    /\ Len(b_errs) >= 2
    /\ last.ret = Join(b_errs)
    /\ b_requests # <<>>
    /\ requests # <<>>

----------------------------------------------------------------------------
(* Properties of the views *)

\* the arguments the view v was made with are rejected by Sheet, Row or Column
MadeInvalid(v) ==
    IF v.kind = "SheetBuilder" THEN v.sheetID < 0 ELSE v.start < 0 \/ v.count < 1

\* one error was recorded after the recorded ones, and no request staged
RecordedOne ==
    /\ Len(b_errs') = Len(b_errs) + 1
    /\ IsPrefix(b_errs, b_errs')
    /\ b_requests' = b_requests

\* one request was staged among the staged ones, and no error recorded
StagedOne ==
    /\ Len(b_requests') = Len(b_requests) + 1
    /\ Staging(b_requests') \in {<<Request("AppendDimension", nextId)>> \o b_requests,
                                  Append(b_requests, Request("UpdateDimensionProperties", nextId))}
    /\ b_errs' = b_errs

\* every request allocated is staged in the Builder
AllInOneSequence == {b_requests[i].id : i \in 1..Len(b_requests)} = 1..(nextId - 1)

\* the staged requests are in the order of the calls that staged them
AllInCallOrder == InCallOrder(b_requests)

\* the appended requests are in the order of their calls, after the prepended
\* ones, of which the one prepended last is first
PrependedThenCallOrder ==
    LET heads == HeadPrepended(b_requests)
    IN  /\ heads = SubSeq(b_requests, 1, Len(heads))
        /\ InReverseCallOrder(heads)
        /\ InCallOrder(TailAppended(b_requests))

\* a call that makes a view, a call through a view, Requests of a view: each
\* acts on the sequence and the list of the one Builder
SharedSink ==
    /\ last'.op \in {"Sheet", "Row", "Column"} =>
           /\ (b_errs' = b_errs /\ b_requests' = b_requests) \/ RecordedOne
           /\ views' # views =>
                  \A v \in views' \ views : MadeInvalid(v) <=> b_errs' # b_errs
    /\ last'.op \in {"ExpandRows", "Hide"} => (StagedOne \/ RecordedOne)
    /\ last'.op = "Requests" =>
           /\ last'.reqs = Requests(Bldr).requests
           /\ last'.ret = Requests(Bldr).err
           /\ Bldr' = Bldr
    /\ AllInOneSequence'

\* C29 as stated: the views of one Builder have one sequence of requests and
\* one list of errors, those of the Builder: what is recorded through a view
\* is recorded there, Requests of every view returns what Requests of the
\* Builder returns, and the requests staged through different views are in
\* the order of their calls.
C29_ViewsInCallOrder == [][SharedSink /\ AllInCallOrder']_vars

\* C29, amended: as stated, but only the appended requests are in the order
\* of their calls; a request prepended through a view (ExpandRows) comes
\* before everything staged earlier through any view.
C29_ViewsShareOneSink == [][SharedSink /\ PrependedThenCallOrder']_vars

\* Requests of a column view returns the request prepended through a sheet
\* view before the one appended to the Builder earlier and the one appended
\* through a row view
C29_Witness ==
    /\ last.op = "Requests"
    /\ last.label = "ColumnBuilder"
    /\ last.ret = NilError
    /\ Len(last.reqs) = 3
    /\ last.reqs[1].kind = "AppendDimension"
    /\ last.reqs[2].kind = "Request"
    /\ last.reqs[3].kind = "UpdateDimensionProperties"
    /\ last.reqs[1].id > last.reqs[2].id
    /\ \E v \in views : v.kind = "RowBuilder"

\* C28: the limit of the executor is positive in every reachable state: a
\* limit that is not positive, given to NewBatchUpdateExecutor or to
\* Builder.WithLimit, is replaced by the default.
C28_LimitPositive == limit > 0

----------------------------------------------------------------------------
(* Properties of the units and of the test before the implicit flush *)

RECURSIVE SumOfCounts(_)
SumOfCounts(us) == IF us = <<>> THEN 0 ELSE Head(us).Count + SumOfCounts(Tail(us))

\* C31: the retained units tile the buffer in admission order: the first
\* starts at index 0, each next one at the end index of the one before plus
\* one, EndIndex = StartIndex + Count - 1, and the counts add up to the
\* length of the buffer.
C31_UnitsTileBuffer ==
    /\ units # <<>> => units[1].StartIndex = 0
    /\ \A i \in 1..Len(units) :
          /\ units[i].EndIndex = units[i].StartIndex + units[i].Count - 1
          /\ i > 1 => units[i].StartIndex = units[i - 1].EndIndex + 1
    /\ SumOfCounts(units) = Len(requests)

\* three units tile a buffer of at least three requests
C31_Witness ==
    /\ Len(units) = 3
    /\ Len(requests) >= 3
    /\ units[2].Count >= 1
    /\ units[3].StartIndex > units[2].StartIndex
    /\ units[3].EndIndex = Len(requests) - 1

\* C32: a Queue that is not refused makes a remote call exactly when the
\* buffer is not empty and its length plus the number of new requests is
\* greater than the limit; with an empty buffer, or a sum up to the limit, it
\* makes no call and appends the new requests after the staged ones.
C32_FlushOnlyWhenOverLimit ==
    [][(last'.op = "Queue" /\ err = NilError) =>
           LET over == Len(requests) > 0 /\ Len(requests) + Len(last'.reqs) > limit
           IN  /\ last'.calls # <<>> <=> over
               /\ ~over =>
                      /\ last'.appended
                      /\ requests' = requests \o last'.reqs
                      /\ Len(units') = Len(units) + 1
      ]_vars

\* a Queue that fills the buffer exactly to the limit: no remote call
C32_Witness ==
    /\ last.op = "Queue"
    /\ last.calls = <<>>
    /\ last.appended
    /\ Len(last.reqs) >= 1
    /\ Len(requests) > Len(last.reqs)
    /\ Len(requests) = limit

\* C37 as stated: every retained unit describes a submission that is not
\* empty: its Count is at least 1 and its StartIndex at most its EndIndex,
\* and there are no units exactly when the buffer is empty.
C37_NoEmptyUnit ==
    /\ \A i \in 1..Len(units) :
          units[i].Count >= 1 /\ units[i].StartIndex <= units[i].EndIndex
    /\ units = <<>> <=> requests = <<>>

\* C37, amended: every retained unit describes one submission, empty or not:
\* its Count is the number of requests of the submission, at least 0, and
\* its StartIndex is at most its EndIndex exactly when the Count is at least
\* 1; there is a unit whenever the buffer is not empty, and a Queue of no
\* requests records a unit too.
C37_UnitPerSubmission ==
    [][/\ \A i \in 1..Len(units') :
             /\ units'[i].Count >= 0
             /\ units'[i].Count >= 1 <=> units'[i].StartIndex <= units'[i].EndIndex
       /\ requests' # <<>> => units' # <<>>
       /\ (last'.op = "Queue" /\ last'.appended) =>
              /\ units' # <<>>
              /\ units'[Len(units')].Count = Len(last'.reqs)
       /\ (last'.op = "Queue" /\ last'.appended /\ last'.calls = <<>>) =>
              Len(units') = Len(units) + 1
      ]_vars

\* a Queue of no requests after a Queue of two: the second unit is empty
C37_Witness ==
    /\ last.op = "Queue"
    /\ last.appended
    /\ last.reqs = <<>>
    /\ Len(units) = 2
    /\ units[1].Count = 2
    /\ units[2].Count = 0
    /\ units[2].EndIndex < units[2].StartIndex

\* C33: a failed remote call is not retried by the call that made it: a
\* Flush and a Queue make at most one remote call, a Builder.Flush at most
\* two, and none of them makes a remote call after one of its calls failed.
C33_NoAutomaticRetry ==
    /\ last.op \in {"Flush", "Queue"} => Len(last.calls) <= 1
    /\ last.op = "Builder.Flush" => Len(last.calls) <= 2
    /\ \A i \in 1..Len(last.calls) : \A j \in 1..Len(last.calls) :
          i < j => last.calls[i].err = NilError

----------------------------------------------------------------------------
(* Properties of the making of views and of the row and column methods *)

\* the view that the last call made
Made ==
    IF last.op = "Sheet" THEN views ELSE {v \in views : v.kind # "SheetBuilder"}

\* C36: Sheet with a negative sheet ID, and Row or Column with a negative
\* start or a count below 1, record one error in the Builder when the view is
\* made and stage no request, so that Requests fails although no method of
\* the view was called; with accepted arguments the Builder is as before.
C36_InvalidScopeRecordedAtOnce ==
    [][last'.op \in {"Sheet", "Row", "Column"} =>
           /\ Made' # {}
           /\ \A v \in Made' :
                 IF MadeInvalid(v)
                 THEN /\ RecordedOne
                      /\ Requests(Bldr').err # NilError
                      /\ Requests(Bldr').requests = <<>>
                 ELSE Bldr' = Bldr
      ]_vars

\* a column view of a valid sheet made with count 0: the only error, and no
\* request was ever staged
C36_Witness ==
    /\ last.op = "Column"
    /\ \E v \in views : v.kind = "ColumnBuilder" /\ v.sheetID >= 0 /\ v.start >= 0 /\ v.count = 0
    /\ Len(b_errs) = 1
    /\ nextId = 1
    /\ b_requests = <<>>
    /\ Requests(Bldr).err # NilError

\* C38: Hide, Show and SetHeight or SetWidth with pixels that are not
\* negative, called on a row or column view made with accepted arguments
\* (start >= 0, count >= 1), stage one request that updates the dimension
\* properties and record no error.
C38_MethodsOfValidViewsStage ==
    [][(/\ last'.op \in {"Hide", "Show", "SetHeight", "SetWidth"}
        /\ \A v \in views : v.kind # "SheetBuilder" => (v.start >= 0 /\ v.count >= 1)) =>
           \/ /\ b_requests' = Append(b_requests, Request("UpdateDimensionProperties", nextId))
              /\ b_errs' = b_errs
           \/ /\ last'.op \in {"SetHeight", "SetWidth"}
              /\ b_errs' = Append(b_errs, NewError("SetHeight: pixels must be positive"))
              /\ b_requests' = b_requests
      ]_vars

----------------------------------------------------------------------------
(* Properties of sheet creation and of the insertion before a copy *)

\* The places of the sequence reqs that hold a request of kind AddSheet behind
\* a request, other than the property update, allocated by an earlier call.
AddSheetBehindEarlier(reqs) ==
    {j \in 1..Len(reqs) :
        /\ reqs[j].kind = "AddSheet"
        /\ \E i \in 1..(j - 1) : /\ reqs[i].kind # "UpdateSpreadsheetProperties"
                                  /\ reqs[i].id < reqs[j].id}

\* C34: the request produced by AddSheet precedes, in the finalized sequence,
\* every request other than the property update that was staged before the
\* AddSheet call.
C34_AddSheetPrecedesEarlier ==
    last.op = "Requests" /\ last.ret = NilError => AddSheetBehindEarlier(last.reqs) = {}

\* The arguments a pass the tests of InsertAndCopyRange.
ArgsAccepted(a) ==
    /\ a.srcSheetID >= 0
    /\ ~a.src.nil /\ a.src.Row >= 0 /\ a.src.Col >= 0
    /\ (a.src.Height >= 0 \/ a.src.Height = toEnd)
    /\ (a.src.Width >= 0 \/ a.src.Width = toEnd)
    /\ a.dstR >= 0 /\ a.dstC >= 0

\* Inserting the destination rectangle of the call, shifting rows, moves the
\* cells of the source: they are on the sheet of the insertion, at or below its
\* first row, and in its columns.
InsertionShiftsSource(a) ==
    /\ a.sheetID = a.srcSheetID
    /\ a.dstR <= a.src.Row
    /\ a.dstC <= a.src.Col
    /\ a.src.Col + a.src.Width <= a.dstC + a.src.Width

\* Where the cells that held the source before the insertion are after it.
SourceAfterInsertion(a) ==
    IF InsertionShiftsSource(a)
    THEN [a.src EXCEPT !.Row = a.src.Row + a.src.Height]
    ELSE a.src

\* C35: InsertAndCopyRange stages the insertion of the destination rectangle
\* (of the height and width of the source) and right behind it a copy whose
\* source is the source rectangle, moved down by its height exactly when the
\* insertion shifts the source cells, so that the copy reads the cells that
\* held the source before the insertion.
C35_CopyReadsShiftedSource ==
    [][last'.op = "InsertAndCopyRange" /\ ArgsAccepted(last'.args) =>
          LET a == last'.args
              dstRect == Rect(a.dstR, a.dstC, a.src.Height, a.src.Width)
          IN  b_requests' = b_requests \o
                  <<[Request("InsertRange", nextId) EXCEPT
                         !.range = GridRange(a.sheetID, dstRect)],
                    [Request("CopyPaste", nextId + 1) EXCEPT
                         !.range = GridRange(a.srcSheetID, SourceAfterInsertion(a))]>>
      ]_vars

----------------------------------------------------------------------------
(* Properties of the repeated explicit Flush *)

\* The buffer is empty and every request admitted was delivered.
Drained == requests = <<>> /\ delivered = admitted

\* C39: when the caller keeps calling Flush and the remote call succeeds in
\* the end, a buffer that holds requests is emptied and every admitted request
\* has been delivered, also on an executor whose sticky error is set.
C39_RetriedFlushDrains == (requests # <<>>) ~> Drained

\* A Flush has drained the buffer of an executor whose sticky error is set.
C39_Witness ==
    /\ last.op = "Flush"
    /\ last.ret = NilError
    /\ Len(last.calls) = 1
    /\ err # NilError
    /\ admitted # <<>>
    /\ Drained

====
